---- MODULE Spec2Model ----
(***************************************************************************)
(* Model of the real-time core of the AI Business Assistant backend:       *)
(* the ConnectionManager registry (websocket_manager.py), the websocket    *)
(* session loop and the REST handlers that share its store and registry    *)
(* (main.py), and the responder (ai_service.py).                           *)
(*                                                                         *)
(* Scheduling.  Everything runs on one asyncio event loop.  A coroutine    *)
(* runs without interruption until it awaits something that really         *)
(* suspends: here only the channel operations accept / send_text /         *)
(* receive_text.  The store calls are synchronous SQLAlchemy calls, and    *)
(* ai_service.process_message / summarize_conversation / suggest_follow_up *)
(* are `async def` bodies that call the synchronous OpenAI client and      *)
(* await nothing that suspends, so awaiting them does not yield.  The      *)
(* model gives every statement group its own pc value and lets a task      *)
(* step only while every other task stands at a suspension point.          *)
(***************************************************************************)
EXTENDS Integers, Sequences, FiniteSets, TLC

\* ------------------------------------------------------------------ bounds
NumHandles == 2      \* websocket objects (connections) that ever exist
MaxMsgs    == 2      \* inbound texts received, all connections together
MaxRest    == 1      \* outreach requests served

Handles == 1..NumHandles
Clients == {"c1", "c2"}
FirstClient == "c1"

\* `conversation` local of websocket_endpoint before its first assignment
Unbound == 0

\* datetimes are counted in seconds
Minute == 60
Hour == 60 * Minute
Day == 24 * Hour

\* --------------------------------------------------------------- variables
VARIABLES
    active_connections,  \* ConnectionManager.active_connections: set of <<client_id, ws>>
    pc,                  \* per websocket: position of websocket_endpoint
    client_id,           \* per websocket: the path parameter
    chan,                \* per websocket: "open" | "closed" (an operation on it has failed)
    conversation,        \* per websocket: local `conversation` (row id, Unbound)
    data,                \* per websocket: the text returned by receive_text
    nrecv,               \* per websocket: texts received so far
    ai_response,         \* per websocket: local `ai_response`
    pending,             \* per websocket: actions of ai_response not yet dispatched
    outbox,              \* per websocket: payloads the peer received, in order
    result,              \* per websocket: how websocket_endpoint ended
    clients,             \* table clients: set of rows
    conversations,       \* table conversations: sequence of rows, id = index
    messages,            \* table messages: sequence of rows in commit order
    rest,                \* the send_outreach request in flight
    nrest,               \* outreach requests started
    bcast,               \* the ConnectionManager.broadcast call in flight, or the last one
    psend,               \* a send_personal_message call in flight (any caller)
    net,                 \* per client id: the last registry call for it was a connect
    appointments,        \* table appointments: sequence of rows, id = index
    sweep,               \* the send_appointment_reminders run in flight, or the last one
    notify,              \* the appointment request suspended in its notification
    ran,                 \* outcome of the last daily_cleanup run
    is_running,          \* AppointmentScheduler.is_running
    upcoming,            \* the check_upcoming_appointments run in flight, and the run before
    jobs,                \* the job store of the AsyncIOScheduler: sequence of job ids
    calls,               \* the calls of start() and shutdown() so far, in order
    clock,               \* the time of the system clock
    reminders            \* the reminder pushes the peers received: appointment ids
                         \* in order, the first `keep` of them

wsVars    == <<pc, client_id, conversation, data, nrecv, ai_response, pending, result>>
storeVars == <<clients, conversations, messages>>
restVars  == <<rest, nrest>>
mgrVars   == <<bcast, psend, net>>
schedVars == <<upcoming, jobs, calls, clock, reminders>>
jobVars   == <<appointments, sweep, notify, ran, is_running, schedVars>>
vars == <<active_connections, chan, outbox, wsVars, storeVars, restVars, mgrVars, jobVars>>

\* the current time as a request or a job reads it (datetime.now(),
\* datetime.utcnow())
Now == clock

\* ------------------------------------------------------- inbound messages
\* A text frame: json = json.loads succeeds, has_content = the object has a
\* 'content' key, is_str = its value is a string, content = the value (for a
\* number, its digits).
Texts == {"please schedule a visit"}

Frames ==
    {[json |-> FALSE, has_content |-> FALSE, is_str |-> FALSE, content |-> ""],
     [json |-> TRUE,  has_content |-> FALSE, is_str |-> FALSE, content |-> ""],
     [json |-> TRUE,  has_content |-> TRUE,  is_str |-> FALSE, content |-> "123"]}
    \cup {[json |-> TRUE, has_content |-> TRUE, is_str |-> TRUE, content |-> t] : t \in Texts}

NoFrame == [json |-> FALSE, has_content |-> FALSE, is_str |-> FALSE, content |-> ""]

\* the keywords of the intent tables that occur in a text (`word in message_lower`)
WordsOf(text) ==
    CASE text = "please schedule a visit" -> {"schedule"}
      [] text = "cancel my booking"       -> {"cancel", "book"}
      [] text = "yes I confirm"           -> {"confirm", "yes"}
      [] text = "change the time"         -> {"change"}
      [] OTHER                            -> {}

Has(text, words) == WordsOf(text) \cap words # {}

\* -------------------------------------------------------------- responder
\* AIService._analyze_intent
_analyze_intent(message) ==
    IF Has(message, {"schedule", "book", "appointment", "available"}) THEN "scheduling"
    ELSE IF Has(message, {"cancel", "reschedule", "change"}) THEN "modification"
    ELSE IF Has(message, {"confirm", "confirmation", "yes", "agree"}) THEN "confirmation"
    ELSE IF Has(message, {"remind", "reminder", "forget"}) THEN "reminder"
    ELSE IF Has(message, {"price", "cost", "fee", "charge"}) THEN "pricing"
    ELSE IF Has(message, {"hour", "open", "close", "when"}) THEN "hours"
    ELSE "general"

\* a dict with no key
EmptyDict == [k \in {} |-> ""]

\* dict.get(key, default)
Get(dict, key, default) == IF key \in DOMAIN dict THEN dict[key] ELSE default

\* AIService._generate_available_slots: the list of the first eight slots
_generate_available_slots == "slots"

Action(type, action_data) == [type |-> type, data |-> action_data]

\* AIService._extract_actions
_extract_actions(intent) ==
    IF intent = "scheduling"
    THEN <<Action("show_availability", [suggested_times |-> _generate_available_slots])>>
    ELSE IF intent = "confirmation" THEN <<Action("confirm_appointment", EmptyDict)>>
    ELSE IF intent = "modification" THEN <<Action("modify_appointment", EmptyDict)>>
    ELSE <<>>

\* a fallback with no text
_generate_fallback_response_Empty(message) ==
    [response |-> "", intent |-> "general", actions |-> <<>>, source |-> "fallback"]

\* AIService._generate_fallback_response
_generate_fallback_response(message) ==
    LET intent ==
            IF Has(message, {"schedule", "appointment"}) THEN "scheduling"
            ELSE IF Has(message, {"cancel"}) THEN "modification"
            ELSE IF Has(message, {"hour", "open"}) THEN "hours"
            ELSE IF Has(message, {"price", "cost"}) THEN "pricing"
            ELSE "general"
        response ==
            CASE intent = "scheduling"   -> "I can help you schedule an appointment."
              [] intent = "modification" -> "I can help you cancel your appointment."
              [] intent = "hours"        -> "Our business hours are Monday-Friday."
              [] intent = "pricing"      -> "Our pricing varies by service."
              [] OTHER                   -> "I'm here to help with scheduling."
    IN [response |-> response, intent |-> intent, actions |-> <<>>, source |-> "fallback"]

\* What a call of the responder meets: no OpenAI client is configured
\* (self.client is None), the completion call raises, or it returns.  The first
\* is fixed for the life of the process; it is drawn per call because it gives
\* every caller exactly the result of a call that raises.
ResponderModes == {"unconfigured", "raises", "ok"}

\* AIService.process_message.  source records which branch produced the result.
process_message(mode, message) ==
    IF mode = "unconfigured" THEN _generate_fallback_response(message)
    ELSE IF mode = "ok" THEN
        [response |-> "completion text",
         intent   |-> _analyze_intent(message),
         actions  |-> _extract_actions(_analyze_intent(message)),
         source   |-> "openai"]
    ELSE _generate_fallback_response(message)

NoResponse == [response |-> "", intent |-> "", actions |-> <<>>, source |-> ""]

\* AIService.summarize_conversation
summarize_conversation(mode) ==
    IF mode = "unconfigured" THEN "Conversation summary not available."
    ELSE IF mode = "ok" THEN "completion summary"
    ELSE "Conversation summary not available."

\* ai_service.py 324-325: (datetime.now() - last_appointment).days, the whole
\* days of the difference rounded down (negative for a date in the future)
days_since(last_appointment) == (Now - last_appointment) \div Day

\* a suggestion without the check-in branch
suggest_follow_up_NoCheckIn(last, days) ==
    IF last = {} THEN "Would you like to schedule your first appointment with us?"
    ELSE IF days > 90 THEN "It's been a while since your last visit!"
    ELSE "None"

\* AIService.suggest_follow_up.  last: the client's last_appointment_date as a
\* set (empty = None); days: the local days_since
suggest_follow_up(last, days) ==
    IF last = {} THEN "Would you like to schedule your first appointment with us?"
    ELSE IF days > 90 THEN "It's been a while since your last visit!"
    ELSE IF days > 30 THEN "Time for your regular check-in?"
    ELSE "None"

\* --------------------------------------------------------------- registry
\* an entry added beside the one the key already has
connect_NoReplace(reg, websocket, c) == reg \cup {<<c, websocket>>}

\* self.active_connections[client_id] = websocket   (dict assignment)
connect(reg, websocket, c) == {p \in reg : p[1] # c} \cup {<<c, websocket>>}

\* a disconnect that drops every entry
disconnect_All(reg, c) == {}

\* a disconnect that leaves the entry in place
disconnect_Keep(reg, c) == reg

\* ConnectionManager.disconnect
disconnect(reg, c) == {p \in reg : p[1] # c}

\* client_id in self.active_connections
Mapped(reg, c) == \E p \in reg : p[1] = c

\* self.active_connections[client_id]
Lookup(reg, c) == (CHOOSE p \in reg : p[1] = c)[2]

\* ------------------------------------------------------------------ store
ClientRow(c, name) == [id |-> c, name |-> name, last_appointment_date |-> {}]

\* db.query(Client).filter(Client.id == client_id).first()
HasClient(c) == \E r \in clients : r.id = c

\* the query without its client filter
ActiveConversations_AnyClient(c) ==
    {i \in 1..Len(conversations) : conversations[i].status = "active"}

\* db.query(Conversation).filter(client_id == c, status == "active")
ActiveConversations(c) ==
    {i \in 1..Len(conversations) :
        conversations[i].client_id = c /\ conversations[i].status = "active"}

Min(S) == CHOOSE x \in S : \A y \in S : x <= y

\* db.query(Message).filter(Message.conversation_id == id).all()
MessagesOf(id) == {i \in 1..Len(messages) : messages[i].conversation_id = id}

ConversationRow(c, status, by) ==
    [client_id |-> c, status |-> status, initiated_by |-> by,
     ended_at |-> "None", summary |-> "None"]

MessageRow(conv, content, sender, ws, k) ==
    [conversation_id |-> conv, content |-> content, sender_type |-> sender,
     ws |-> ws, k |-> k]

\* ------------------------------------------------------------- event loop
\* positions at which websocket_endpoint is suspended in an await
YieldPCs == {"idle", "send_welcome", "receive", "send_response", "send_slots", "done"}

\* task t may run: no other task is between two suspension points
OthersYielded(h) == \A g \in Handles \ {h} : pc[g] \in YieldPCs
AllYielded == \A g \in Handles : pc[g] \in YieldPCs

RECURSIVE SumTo(_, _)
SumTo(f, n) == IF n = 0 THEN 0 ELSE f[n] + SumTo(f, n - 1)

\* inbound texts received so far on all connections
Received == SumTo(nrecv, NumHandles)

\* The outcomes a channel operation on ws can have: TRUE = it succeeds.  A
\* socket whose handler has returned is closed; an open one may turn out to be
\* dead (the peer closed it, or the transport failed), and stays dead.
ChannelOutcomes(ws) ==
    IF chan[ws] = "open" /\ pc[ws] \notin {"idle", "done"} THEN {TRUE, FALSE} ELSE {FALSE}

\* the channel after an operation with outcome ok
After(ws, ok) == IF ok THEN chan ELSE [chan EXCEPT ![ws] = "closed"]

Payload(type, content, k) == [type |-> type, content |-> content, k |-> k]

\* no broadcast has been called
BroadcastIdle ==
    [pc |-> "idle", size |-> 0, start |-> {}, visited |-> {}, client |-> "none", ws |-> Unbound,
     disconnected_clients |-> {}, disturbed |-> FALSE, outcome |-> "none"]

\* no send_personal_message call is suspended
SendIdle == [pc |-> "idle", client |-> "none", ws |-> Unbound]

\* no reminder sweep has run
SweepIdle ==
    [pc |-> "idle", todo |-> <<>>, snapshot |-> {}, cur |-> Unbound, client |-> "none",
     ws |-> Unbound, handed |-> {}, dirty |-> {}, attempted |-> {}, failed |-> {},
     outcome |-> "none"]

\* no imminent-appointment run is in flight and none has finished
UpcomingIdle ==
    [pc |-> "idle", todo |-> <<>>, cur |-> Unbound, client |-> "none", ws |-> Unbound,
     handed |-> {}, selected |-> {}, prev |-> {}]

\* scheduler.py 57-63: add_job(..., id=id, replace_existing=True) on the job
\* store: a job under the same id is replaced where it stands
add_job(store, id) ==
    IF \E i \in 1..Len(store) : store[i] = id THEN store ELSE Append(store, id)

\* scheduler.py 53-92
_schedule_tasks(store) ==
    add_job(add_job(add_job(add_job(store, "send_reminders"), "check_upcoming"),
                    "daily_cleanup"), "weekly_report")

\* scheduler.py 57-92: the ids _schedule_tasks registers, in its order
ScheduledJobs == _schedule_tasks(<<>>)

\* a shutdown that leaves the flag set
shutdown_KeepsFlag(s) == [s EXCEPT !.jobs = <<>>]

\* scheduler.py 30-42, on the flag and the job store
start(s) ==
    IF s.is_running THEN s
    ELSE [is_running |-> TRUE, jobs |-> _schedule_tasks(s.jobs)]

\* scheduler.py 44-51, on the flag and the job store; the in-memory job store
\* of the library drops its jobs when the scheduler shuts it down
shutdown(s) ==
    IF ~s.is_running THEN s
    ELSE [is_running |-> FALSE, jobs |-> <<>>]

\* no reminder push has been received and none is kept
NoReminders == [keep |-> 0, log |-> <<>>]

\* websocket_manager.py 35: the peer has received the reminder of appointment a
Received_Reminder(r, a) ==
    IF Len(r.log) < r.keep THEN [r EXCEPT !.log = Append(@, a)] ELSE r

\* no appointment request is suspended in its notification
NotifyIdle == [pc |-> "idle", client |-> "none", ws |-> Unbound]

\* ------------------------------------------------------------------- Init
Init ==
    /\ active_connections = {}
    /\ pc = [h \in Handles |-> "idle"]
    /\ client_id = [h \in Handles |-> "none"]
    /\ chan = [h \in Handles |-> "open"]
    /\ conversation = [h \in Handles |-> Unbound]
    /\ data = [h \in Handles |-> NoFrame]
    /\ nrecv = [h \in Handles |-> 0]
    /\ ai_response = [h \in Handles |-> NoResponse]
    /\ pending = [h \in Handles |-> <<>>]
    /\ outbox = [h \in Handles |-> <<>>]
    /\ result = [h \in Handles |-> "none"]
    /\ clients = {}
    /\ conversations = <<>>
    /\ messages = <<>>
    /\ rest = [pc |-> "idle", client |-> "none", ws |-> Unbound, follow_up |-> "None", outcome |-> "none"]
    /\ nrest = 0
    /\ bcast = BroadcastIdle
    /\ psend = SendIdle
    /\ net = [c \in Clients |-> FALSE]
    /\ appointments = <<>>
    /\ sweep = SweepIdle
    /\ notify = NotifyIdle
    /\ ran = "none"
    /\ is_running = TRUE
    /\ upcoming = UpcomingIdle
    /\ jobs = ScheduledJobs
    /\ calls = <<"start">>
    /\ clock = 0
    /\ reminders = NoReminders

\* ------------------------------------------------- websocket_endpoint
Goto(h, label) == pc' = [pc EXCEPT ![h] = label]

\* The locals message_data and ai_response are not read again before the loop
\* assigns them anew (nor by the except branches): they are cleared at that
\* point, so that states differing only in such dead values coincide.
Forget(h) ==
    /\ data' = [data EXCEPT ![h] = NoFrame]
    /\ ai_response' = [ai_response EXCEPT ![h] = NoResponse]

\* main.py 66-67: manager.connect accepts the socket and registers it
WsConnect(h, c) ==
    /\ pc[h] = "idle"
    /\ \A g \in Handles : g < h => pc[g] # "idle"    \* sockets are numbered as they arrive
    /\ h = 1 => c = FirstClient                        \* and client ids named by first connection
    /\ OthersYielded(h)
    /\ active_connections' = connect(active_connections, h, c)
    /\ client_id' = [client_id EXCEPT ![h] = c]
    /\ Goto(h, "send_welcome")
    /\ UNCHANGED <<chan, outbox, conversation, data, nrecv,
                   ai_response, pending, result, storeVars, restVars, mgrVars, jobVars>>

\* the exception a send_text on a dead channel raises: WebSocketDisconnect or
\* another exception, depending on the server library in use
SendRaises(h) ==
    \E handler \in {"except_disconnect", "except_error"} : Goto(h, handler)

\* receive_text on a dead channel: WebSocketDisconnect when the peer closed,
\* another exception when the transport failed
ReceiveRaises(h) ==
    \E handler \in {"except_disconnect", "except_error"} : Goto(h, handler)

\* main.py 71-75: the welcome payload
WsSendWelcome(h) ==
    /\ pc[h] = "send_welcome"
    /\ OthersYielded(h)
    /\ \E ok \in ChannelOutcomes(h) :
          /\ chan' = After(h, ok)
          /\ IF ok
             THEN /\ outbox' = [outbox EXCEPT ![h] = Append(@, Payload("connection", "Connected to AI Business Assistant", 0))]
                  /\ Goto(h, "get_client")
             ELSE /\ SendRaises(h)
                  /\ UNCHANGED outbox
    /\ UNCHANGED <<active_connections, client_id, conversation,
                   data, nrecv, ai_response, pending, result, storeVars, restVars, mgrVars, jobVars>>

\* the new row never committed
GetOrCreateClient_NoCommit(c, name) == clients

\* main.py 78-88: get or create the client row
GetOrCreateClient(c, name) ==
    IF HasClient(c) THEN clients ELSE clients \cup {ClientRow(c, name)}

WsGetOrCreateClient(h) ==
    /\ pc[h] = "get_client"
    /\ OthersYielded(h)
    /\ clients' = GetOrCreateClient(client_id[h], "Client")
    /\ Goto(h, "receive")
    /\ UNCHANGED <<active_connections, chan, outbox, client_id,
                   conversation, data, nrecv, ai_response, pending, result,
                   conversations, messages, restVars, mgrVars, jobVars>>

\* main.py 92-93: receive_text, then json.loads
WsReceive(h, frames) ==
    /\ pc[h] = "receive"
    /\ OthersYielded(h)
    /\ \E ok \in ChannelOutcomes(h) :
          /\ chan' = After(h, ok)
          /\ IF ok
             THEN /\ Received < MaxMsgs
                  /\ \E f \in frames :
                        /\ data' = [data EXCEPT ![h] = f]
                        /\ Goto(h, IF f.json THEN "find_conv" ELSE "except_error")
                  /\ nrecv' = [nrecv EXCEPT ![h] = @ + 1]
             ELSE /\ ReceiveRaises(h)
                  /\ UNCHANGED <<data, nrecv>>
    /\ UNCHANGED <<active_connections, outbox, client_id,
                   conversation, ai_response, pending, result, storeVars, restVars, mgrVars, jobVars>>

\* the lookup without its status filter: the first conversation of the client
FindOrCreate_AnyStatus(c) ==
    LET own == {i \in 1..Len(conversations) : conversations[i].client_id = c}
    IN IF own # {}
       THEN [id |-> Min(own), rows |-> conversations]
       ELSE [id |-> Len(conversations) + 1,
             rows |-> Append(conversations, ConversationRow(c, "active", "client"))]

\* the session creating a conversation without looking for an active one
FindOrCreate_AlwaysCreate(c) ==
    [id |-> Len(conversations) + 1,
     rows |-> Append(conversations, ConversationRow(c, "active", "client"))]

\* main.py 96-109: the row the session uses: the active conversation of the
\* client, or a new one
FindOrCreate(c) ==
    IF ActiveConversations(c) # {}
    THEN [id |-> Min(ActiveConversations(c)), rows |-> conversations]
    ELSE [id |-> Len(conversations) + 1,
          rows |-> Append(conversations, ConversationRow(c, "active", "client"))]

\* A failed commit (line 108) leaves the store as it was; the local then names
\* a row that was never stored and that no later statement reads.
WsFindOrCreateConversation(h) ==
    /\ pc[h] = "find_conv"
    /\ OthersYielded(h)
    /\ \/ /\ conversation' = [conversation EXCEPT ![h] = FindOrCreate(client_id[h]).id]
          /\ conversations' = FindOrCreate(client_id[h]).rows
          /\ Goto(h, "save_user")
       \/ /\ ActiveConversations(client_id[h]) = {}
          /\ Goto(h, "except_error")
          /\ UNCHANGED <<conversation, conversations>>
    /\ UNCHANGED <<active_connections, chan, outbox, client_id,
                   data, nrecv, ai_response, pending, result, clients, messages, restVars, mgrVars, jobVars>>

\* the row added but never committed
PersistMessage_Lost(row) == messages

\* db.add(row); db.commit() on the messages table
PersistMessage(row) == Append(messages, row)

\* main.py 112-119: message_data['content'] raises KeyError without the key
WsSaveUserMessage(h) ==
    /\ pc[h] = "save_user"
    /\ OthersYielded(h)
    /\ \/ /\ data[h].has_content
          /\ messages' = PersistMessage(MessageRow(conversation[h], data[h].content, "client", h, nrecv[h]))
          /\ Goto(h, "respond")
       \/ /\ Goto(h, "except_error")
          /\ UNCHANGED messages
    /\ UNCHANGED <<active_connections, chan, outbox, client_id,
                   conversation, data, nrecv, ai_response, pending, result,
                   clients, conversations, restVars, mgrVars, jobVars>>

\* main.py 143-147.  A content that is no string has no lower(): the
\* AttributeError leaves process_message, from _generate_fallback_response
\* (ai_service.py 64 or 105, outside or after the try) on every path.
WsProcessMessage(h) ==
    /\ pc[h] = "respond"
    /\ OthersYielded(h)
    /\ IF data[h].is_str
       THEN /\ \E mode \in ResponderModes :
                  ai_response' = [ai_response EXCEPT ![h] = process_message(mode, data[h].content)]
            /\ Goto(h, "save_ai")
       ELSE /\ Goto(h, "except_error")
            /\ UNCHANGED ai_response
    /\ UNCHANGED <<active_connections, chan, outbox, client_id,
                   conversation, data, nrecv, pending, result, storeVars, restVars, mgrVars, jobVars>>

\* main.py 150-158
WsSaveAiMessage(h) ==
    /\ pc[h] = "save_ai"
    /\ OthersYielded(h)
    /\ \/ /\ messages' = PersistMessage(MessageRow(conversation[h], ai_response[h].response, "assistant", h, nrecv[h]))
          /\ Goto(h, "send_response")
       \/ /\ Goto(h, "except_error")
          /\ UNCHANGED messages
    /\ UNCHANGED <<active_connections, chan, outbox, client_id,
                   conversation, data, nrecv, ai_response, pending, result,
                   clients, conversations, restVars, mgrVars, jobVars>>

\* main.py 161-169
WsSendResponse(h) ==
    /\ pc[h] = "send_response"
    /\ OthersYielded(h)
    /\ \E ok \in ChannelOutcomes(h) :
          /\ chan' = After(h, ok)
          /\ IF ok
             THEN /\ outbox' = [outbox EXCEPT ![h] = Append(@, Payload("message", ai_response[h].response, nrecv[h]))]
                  /\ pending' = [pending EXCEPT ![h] = ai_response[h].actions]
                  /\ Goto(h, "dispatch")
             ELSE /\ SendRaises(h)
                  /\ UNCHANGED <<outbox, pending>>
    /\ Forget(h)
    /\ UNCHANGED <<active_connections, client_id, conversation,
                   nrecv, result, storeVars, restVars, mgrVars, jobVars>>

\* a dispatcher that answers every action with the slots payload
process_action_Always(action, k) ==
    <<Payload("available_slots", Get(action.data, "suggested_times", "[]"), k)>>

\* main.py 199-223: the payloads process_action hands to send_text for an
\* action of the k-th message; the two logging branches and an unmatched type
\* send nothing
process_action(action, k) ==
    IF action.type = "show_availability"
    THEN <<Payload("available_slots", Get(action.data, "suggested_times", "[]"), k)>>
    ELSE <<>>

\* a loop that gives up the batch when an action has failed
AfterAction_Abort(batch, ok) == IF ok THEN Tail(batch) ELSE <<>>

\* main.py 172-173: the actions left once process_action has returned for the
\* first one, with ok = whether its send went through; process_action never
\* raises, so the for loop goes on to the next action either way
AfterAction(batch, ok) == Tail(batch)

\* main.py 172-173 and process_action 199-223 up to its await
WsProcessAction(h) ==
    /\ pc[h] = "dispatch"
    /\ OthersYielded(h)
    /\ IF pending[h] = <<>>
       THEN Goto(h, "receive") /\ UNCHANGED pending
       ELSE IF process_action(Head(pending[h]), nrecv[h]) # <<>>
       THEN Goto(h, "send_slots") /\ UNCHANGED pending
       ELSE UNCHANGED pc /\ pending' = [pending EXCEPT ![h] = AfterAction(@, TRUE)]
    /\ UNCHANGED <<active_connections, chan, outbox, client_id,
                   conversation, data, nrecv, ai_response, result, storeVars, restVars, mgrVars, jobVars>>

\* process_action 207-212 and 222-223: the send, whose failure is logged
WsSendSlots(h) ==
    /\ pc[h] = "send_slots"
    /\ OthersYielded(h)
    /\ \E ok \in ChannelOutcomes(h) :
          /\ chan' = After(h, ok)
          /\ outbox' = [outbox EXCEPT ![h] =
                           IF ok THEN @ \o process_action(Head(pending[h]), nrecv[h])
                           ELSE @]
          /\ pending' = [pending EXCEPT ![h] = AfterAction(@, ok)]
    /\ Goto(h, "dispatch")
    /\ UNCHANGED <<active_connections, client_id, conversation,
                   data, nrecv, ai_response, result, storeVars, restVars, mgrVars, jobVars>>

\* the finalization without the summary
Finalize_NoSummary(id, mode) ==
    [conversations EXCEPT ![id] = [@ EXCEPT !.ended_at = "utcnow", !.status = "ended"]]

\* main.py 177-191: the finalization of the WebSocketDisconnect branch on a
\* bound conversation
Finalize(id, mode) ==
    [conversations EXCEPT ![id] =
        [@ EXCEPT !.ended_at = "utcnow",
                  !.status = "ended",
                  !.summary = IF MessagesOf(id) # {}
                              THEN summarize_conversation(mode)
                              ELSE @]]

\* main.py 175-192.  `if conversation:` on the unassigned local raises
\* UnboundLocalError; a failed commit (line 191) raises out of the handler too.
WsOnDisconnect(h) ==
    /\ pc[h] = "except_disconnect"
    /\ OthersYielded(h)
    /\ active_connections' = disconnect(active_connections, client_id[h])
    /\ IF conversation[h] = Unbound
       THEN /\ result' = [result EXCEPT ![h] = "raised"]
            /\ UNCHANGED conversations
       ELSE \/ /\ \E mode \in ResponderModes :
                     conversations' = Finalize(conversation[h], mode)
               /\ result' = [result EXCEPT ![h] = "returned"]
            \/ /\ result' = [result EXCEPT ![h] = "raised"]
               /\ UNCHANGED conversations
    /\ Goto(h, "done")
    /\ Forget(h)
    /\ UNCHANGED <<chan, outbox, client_id, conversation,
                   nrecv, pending, clients, messages, restVars, mgrVars, jobVars>>

\* main.py 193-195
WsOnError(h) ==
    /\ pc[h] = "except_error"
    /\ OthersYielded(h)
    /\ active_connections' = disconnect(active_connections, client_id[h])
    /\ result' = [result EXCEPT ![h] = "returned"]
    /\ Goto(h, "done")
    /\ Forget(h)
    /\ UNCHANGED <<chan, outbox, client_id, conversation,
                   nrecv, pending, storeVars, restVars, mgrVars, jobVars>>

\* ---------------------------------------------------------- REST handlers
\* main.py 262-276: get_client creates a demo row for an unknown id
GetClient(c) ==
    /\ AllYielded
    /\ clients' = GetOrCreateClient(c, "Demo User")
    /\ UNCHANGED <<active_connections, chan, outbox, wsVars,
                   conversations, messages, restVars, mgrVars, jobVars>>

RestIdle(outcome) ==
    [pc |-> "idle", client |-> "none", ws |-> Unbound, follow_up |-> "None", outcome |-> outcome]

\* a request that answers success where the row is missing
HttpNotFound_Ok(detail) == RestIdle("sent")

\* raise HTTPException(status_code=404, detail=...): the request ends there
HttpNotFound(detail) == RestIdle("not_found")

\* main.py 494-511: the outreach conversation and its message.  The session
\* has autoflush off and nothing flushes before line 505, so conversation.id
\* is still None when the message row is built.
PersistOutreach(c, follow_up) ==
    /\ conversations' = Append(conversations, ConversationRow(c, "outreach", "system"))
    /\ messages' = PersistMessage(MessageRow(Unbound, follow_up, "assistant", Unbound, 0))

\* main.py 479-492 up to the await of the send inside send_personal_message
\* (websocket_manager.py 29-30); with no mapping the handler runs to its end
OutreachStart(c) ==
    /\ AllYielded
    /\ rest.pc = "idle"
    /\ nrest < MaxRest
    /\ nrest' = nrest + 1
    /\ IF ~HasClient(c)
       THEN /\ rest' = HttpNotFound("Client not found")
            /\ UNCHANGED <<conversations, messages>>
       ELSE LET last == (CHOOSE r \in clients : r.id = c).last_appointment_date
                follow_up == suggest_follow_up(
                    last, IF last = {} THEN 0 ELSE days_since(CHOOSE d \in last : TRUE))
            IN IF follow_up = "None"
               THEN /\ rest' = RestIdle("no_outreach")
                    /\ UNCHANGED <<conversations, messages>>
               ELSE IF Mapped(active_connections, c)
               THEN /\ rest' = [pc |-> "send", client |-> c,
                                ws |-> Lookup(active_connections, c),
                                follow_up |-> follow_up, outcome |-> "none"]
                    /\ UNCHANGED <<conversations, messages>>
               ELSE /\ rest' = RestIdle("sent")
                    /\ PersistOutreach(c, follow_up)
    /\ UNCHANGED <<active_connections, chan, outbox, wsVars, clients, mgrVars, jobVars>>

\* websocket_manager.py 31-38, then main.py 494-513
OutreachSend ==
    /\ AllYielded
    /\ rest.pc = "send"
    /\ \E ok \in ChannelOutcomes(rest.ws) :
          /\ chan' = After(rest.ws, ok)
          /\ IF ok
             THEN /\ outbox' = [outbox EXCEPT ![rest.ws] = Append(@, Payload("message", rest.follow_up, 0))]
                  /\ UNCHANGED active_connections
             ELSE /\ active_connections' = disconnect(active_connections, rest.client)
                  /\ UNCHANGED outbox
    /\ PersistOutreach(rest.client, rest.follow_up)
    /\ rest' = RestIdle("sent")
    /\ UNCHANGED <<wsVars, clients, nrest, mgrVars, jobVars>>

\* ------------------------------------------------------------------- Next
Next ==
    \/ \E h \in Handles, c \in Clients : WsConnect(h, c)
    \/ \E h \in Handles : WsSendWelcome(h)
    \/ \E h \in Handles : WsGetOrCreateClient(h)
    \/ \E h \in Handles : WsReceive(h, Frames)
    \/ \E h \in Handles : WsFindOrCreateConversation(h)
    \/ \E h \in Handles : WsSaveUserMessage(h)
    \/ \E h \in Handles : WsProcessMessage(h)
    \/ \E h \in Handles : WsSaveAiMessage(h)
    \/ \E h \in Handles : WsSendResponse(h)
    \/ \E h \in Handles : WsProcessAction(h)
    \/ \E h \in Handles : WsSendSlots(h)
    \/ \E h \in Handles : WsOnDisconnect(h)
    \/ \E h \in Handles : WsOnError(h)
    \/ \E c \in Clients : GetClient(c)

\* the session pipeline with the registry and get_client
Spec == Init /\ [][Next]_vars

\* the same with on-demand outreach (send_outreach, send_personal_message)
NextOutreach ==
    \/ Next
    \/ \E c \in Clients : OutreachStart(c)
    \/ OutreachSend

SpecOutreach == Init /\ [][NextOutreach]_vars

\* well-formed frames, one for each intent that has an action
ActionFrames ==
    {[json |-> TRUE, has_content |-> TRUE, is_str |-> TRUE, content |-> t] :
        t \in {"please schedule a visit", "yes I confirm", "change the time"}}

\* the session pipeline on messages whose responses carry actions
NextDispatch ==
    \/ \E h \in Handles, c \in Clients : WsConnect(h, c)
    \/ \E h \in Handles : WsSendWelcome(h)
    \/ \E h \in Handles : WsGetOrCreateClient(h)
    \/ \E h \in Handles : WsReceive(h, ActionFrames)
    \/ \E h \in Handles : WsFindOrCreateConversation(h)
    \/ \E h \in Handles : WsSaveUserMessage(h)
    \/ \E h \in Handles : WsProcessMessage(h)
    \/ \E h \in Handles : WsSaveAiMessage(h)
    \/ \E h \in Handles : WsSendResponse(h)
    \/ \E h \in Handles : WsProcessAction(h)
    \/ \E h \in Handles : WsSendSlots(h)
    \/ \E h \in Handles : WsOnDisconnect(h)
    \/ \E h \in Handles : WsOnError(h)

SpecDispatch == Init /\ [][NextDispatch]_vars

\* ------------------------------------------- the action loop on any batch
\* The loop of main.py 172-173 around process_action, on every list of
\* actions up to MaxBatch: _extract_actions itself returns at most one action
\* per message.  The first connection has had its first message stored and
\* answered and is about to send the response.
MaxBatch == 3

\* action types the dispatcher may be handed, one of them matched by no branch
ActionTypes ==
    {"show_availability", "confirm_appointment", "modify_appointment", "unknown"}

Batches ==
    UNION {[1..n -> {Action(t, IF t = "show_availability"
                               THEN [suggested_times |-> _generate_available_slots]
                               ELSE EmptyDict) : t \in ActionTypes}] : n \in 0..MaxBatch}

InitActions ==
    /\ active_connections = {<<FirstClient, 1>>}
    /\ pc = [h \in Handles |-> IF h = 1 THEN "send_response" ELSE "idle"]
    /\ client_id = [h \in Handles |-> IF h = 1 THEN FirstClient ELSE "none"]
    /\ chan = [h \in Handles |-> "open"]
    /\ conversation = [h \in Handles |-> IF h = 1 THEN 1 ELSE Unbound]
    /\ data = [h \in Handles |->
                 IF h = 1
                 THEN [json |-> TRUE, has_content |-> TRUE, is_str |-> TRUE,
                       content |-> "please schedule a visit"]
                 ELSE NoFrame]
    /\ nrecv = [h \in Handles |-> IF h = 1 THEN 1 ELSE 0]
    /\ \E batch \in Batches :
          ai_response = [h \in Handles |->
                            IF h = 1
                            THEN [response |-> "completion text", intent |-> "scheduling",
                                  actions |-> batch, source |-> "openai"]
                            ELSE NoResponse]
    /\ pending = [h \in Handles |-> <<>>]
    /\ outbox = [h \in Handles |->
                   IF h = 1
                   THEN <<Payload("connection", "Connected to AI Business Assistant", 0)>>
                   ELSE <<>>]
    /\ result = [h \in Handles |-> "none"]
    /\ clients = {ClientRow(FirstClient, "Client")}
    /\ conversations = <<ConversationRow(FirstClient, "active", "client")>>
    /\ messages = <<MessageRow(1, "please schedule a visit", "client", 1, 1),
                    MessageRow(1, "completion text", "assistant", 1, 1)>>
    /\ rest = RestIdle("none")
    /\ nrest = 0
    /\ bcast = BroadcastIdle
    /\ psend = SendIdle
    /\ net = [c \in Clients |-> FALSE]
    /\ appointments = <<>>
    /\ sweep = SweepIdle
    /\ notify = NotifyIdle
    /\ ran = "none"
    /\ is_running = TRUE
    /\ upcoming = UpcomingIdle
    /\ jobs = ScheduledJobs
    /\ calls = <<"start">>
    /\ clock = 0
    /\ reminders = NoReminders

NextActions ==
    \/ \E h \in Handles : WsSendResponse(h)
    \/ \E h \in Handles : WsProcessAction(h)
    \/ \E h \in Handles : WsSendSlots(h)
    \/ \E h \in Handles : WsReceive(h, ActionFrames)
    \/ \E h \in Handles : WsOnDisconnect(h)
    \/ \E h \in Handles : WsOnError(h)

SpecActions == InitActions /\ [][NextActions]_vars

\* =========================================== the registry under its callers
\* ConnectionManager taken by itself: tasks call connect, disconnect,
\* send_personal_message and broadcast in any interleaving.  A socket is an
\* element of Handles, registered at most once; client_id and chan carry its
\* path parameter and its liveness, no websocket_endpoint runs on it.

\* the outcomes of a send_text on ws: a dead socket stays dead
SocketOutcomes(ws) == IF chan[ws] = "open" THEN {TRUE, FALSE} ELSE {FALSE}

\* client ids that have an entry
Ids(reg) == {p[1] : p \in reg}

\* a clean-up loop that removes nothing
disconnect_each_None(reg, cs) == reg

\* disconnect called for every id of a collection (websocket_manager.py 51-52)
disconnect_each(reg, cs) == {p \in reg : p[1] \notin cs}

\* the broadcast in flight, once another task has changed the registry to reg
Disturbed(reg) ==
    IF bcast.pc = "send" /\ reg # active_connections
    THEN [bcast EXCEPT !.disturbed = TRUE]
    ELSE bcast

\* websocket_manager.py 15-19, from the return of accept()
MgrConnect(ws, c) ==
    /\ client_id[ws] = "none"
    /\ \A g \in Handles : g < ws => client_id[g] # "none"
    /\ ws = 1 => c = FirstClient
    /\ client_id' = [client_id EXCEPT ![ws] = c]
    /\ active_connections' = connect(active_connections, ws, c)
    /\ net' = [net EXCEPT ![c] = TRUE]
    /\ bcast' = Disturbed(active_connections')
    /\ UNCHANGED <<chan, outbox, pc, conversation, data, nrecv, ai_response, pending,
                   result, storeVars, restVars, psend, jobVars>>

\* websocket_manager.py 21-25
MgrDisconnect(c) ==
    /\ active_connections' = disconnect(active_connections, c)
    /\ net' = [net EXCEPT ![c] = FALSE]
    /\ bcast' = Disturbed(active_connections')
    /\ UNCHANGED <<chan, outbox, wsVars, storeVars, restVars, psend, jobVars>>

\* websocket_manager.py 27-32: up to the await of send_text; with no mapping
\* the call returns at once
MgrSendStart(c) ==
    /\ psend.pc = "idle"
    /\ Mapped(active_connections, c)
    /\ psend' = [pc |-> "send", client |-> c, ws |-> Lookup(active_connections, c)]
    /\ UNCHANGED <<active_connections, chan, outbox, wsVars, storeVars, restVars,
                   bcast, net, jobVars>>

\* websocket_manager.py 32-38: send_text returns or raises
MgrSendFinish ==
    /\ psend.pc = "send"
    /\ \E ok \in SocketOutcomes(psend.ws) :
          /\ chan' = After(psend.ws, ok)
          /\ IF ok
             THEN UNCHANGED <<active_connections, net, bcast>>
             ELSE /\ active_connections' = disconnect(active_connections, psend.client)
                  /\ net' = [net EXCEPT ![psend.client] = FALSE]
                  /\ bcast' = Disturbed(active_connections')
    /\ psend' = SendIdle
    /\ UNCHANGED <<outbox, wsVars, storeVars, restVars, jobVars>>

\* the broadcast once it has ended with outcome
BroadcastDone(b, outcome) ==
    [b EXCEPT !.pc = "done", !.client = "none", !.ws = Unbound, !.outcome = outcome]

\* websocket_manager.py 42-45: the iterator over items() is created and gives
\* its first entry; over an empty registry both loops end at once.  The order
\* of the entries is left open.
BroadcastStart ==
    /\ bcast.pc \in {"idle", "done"}
    /\ IF active_connections = {}
       THEN bcast' = BroadcastDone(BroadcastIdle, "returned")
       ELSE \E p \in active_connections :
               bcast' = [BroadcastIdle EXCEPT
                           !.pc = "send", !.size = Cardinality(active_connections),
                           !.start = Ids(active_connections),
                           !.client = p[1], !.ws = p[2]]
    /\ UNCHANGED <<active_connections, chan, outbox, wsVars, storeVars, restVars,
                   psend, net, jobVars>>

\* websocket_manager.py 43-52: send_text returns or raises, then the iterator
\* is asked for its next entry.  It raises RuntimeError when the size of the
\* dict is not the one it had when the iterator was created (the error leaves
\* broadcast: the for statement is outside the try); otherwise it gives an
\* entry not yet visited, or ends, and the clean-up loop runs.
BroadcastSend ==
    /\ bcast.pc = "send"
    /\ \E ok \in SocketOutcomes(bcast.ws) :
          LET b == [bcast EXCEPT
                      !.visited = @ \cup {bcast.client},
                      !.disconnected_clients =
                          IF ok THEN @ ELSE @ \cup {bcast.client}]
          IN
          /\ chan' = After(bcast.ws, ok)
          /\ IF Cardinality(active_connections) # bcast.size
             THEN /\ bcast' = BroadcastDone(b, "raised")
                  /\ UNCHANGED <<active_connections, net>>
             ELSE IF \E p \in active_connections : p[1] \notin b.visited
             THEN /\ \E p \in active_connections :
                        /\ p[1] \notin b.visited
                        /\ bcast' = [b EXCEPT !.client = p[1], !.ws = p[2]]
                  /\ UNCHANGED <<active_connections, net>>
             ELSE /\ bcast' = BroadcastDone(b, "returned")
                  /\ active_connections' =
                         disconnect_each(active_connections, b.disconnected_clients)
                  /\ net' = [c \in Clients |->
                                IF c \in b.disconnected_clients THEN FALSE ELSE net[c]]
    /\ UNCHANGED <<outbox, wsVars, storeVars, restVars, psend, jobVars>>

NextRegistry ==
    \/ \E ws \in Handles, c \in Clients : MgrConnect(ws, c)
    \/ \E c \in Clients : MgrDisconnect(c)
    \/ \E c \in Clients : MgrSendStart(c)
    \/ MgrSendFinish
    \/ BroadcastStart
    \/ BroadcastSend

SpecRegistry == Init /\ [][NextRegistry]_vars

\* ================================================ appointments and jobs
\* The appointment REST handlers (main.py) and the scheduler jobs
\* (scheduler.py) over the appointments table, with the registry driven by
\* connect and disconnect calls.  Times are hours; a job reads the clock once,
\* at its start.
MaxAppts == 2        \* appointments ever created

\* timedelta(hours=24) of the reminder window
ReminderWindow == 24 * Hour
\* timedelta(hours=1) of the reconciliation
CleanupGrace == 1 * Hour

\* scheduled dates a request can carry: on both sides of each limit
Dates == {Now - CleanupGrace - 1, Now - CleanupGrace, Now,
          Now + ReminderWindow, Now + ReminderWindow + 1}

Statuses == {"pending", "confirmed", "cancelled", "completed"}

\* a row created with the flag set
AppointmentRow_Reminded(c, d) ==
    [client_id |-> c, status |-> "pending", scheduled_date |-> d, reminder_sent |-> TRUE]

\* Appointment(**appointment.dict()) with the column defaults of models.py
AppointmentRow(c, d) ==
    [client_id |-> c, status |-> "pending", scheduled_date |-> d, reminder_sent |-> FALSE]

AppointmentIds == 1..Len(appointments)

\* no job stands between its last statement and its return: a job runs
\* without interruption except where it is suspended in a push
JobsYielded ==
    /\ sweep.pc \in {"idle", "send"}
    /\ upcoming.pc \in {"idle", "send"}
    /\ ran = "none"

\* a filter that leaves the status out
NeedsReminder_AnyStatus(a) ==
    /\ a.reminder_sent = FALSE
    /\ a.scheduled_date >= Now
    /\ a.scheduled_date <= Now + ReminderWindow

\* a filter that leaves the flag out
NeedsReminder_AnyFlag(a) ==
    /\ a.status = "confirmed"
    /\ a.scheduled_date >= Now
    /\ a.scheduled_date <= Now + ReminderWindow

\* the filter of scheduler.py 107-112
NeedsReminder(a) ==
    /\ a.status = "confirmed"
    /\ a.reminder_sent = FALSE
    /\ a.scheduled_date >= Now
    /\ a.scheduled_date <= Now + ReminderWindow

\* the filter of scheduler.py 212-215
IsPast(a) ==
    /\ a.status = "confirmed"
    /\ a.scheduled_date < Now - CleanupGrace

\* the filter of scheduler.py 226-229
IsRescheduled(a) ==
    /\ a.reminder_sent = TRUE
    /\ a.scheduled_date > Now

\* the rows of a query, by id
RECURSIVE Rows(_, _)
Rows(S, from) ==
    IF from > Len(appointments) THEN <<>>
    ELSE IF from \in S THEN <<from>> \o Rows(S, from + 1)
    ELSE Rows(S, from + 1)

Range(q) == {q[i] : i \in 1..Len(q)}

\* scheduler.py 115-148: the loop of the sweep from its current position to
\* its next suspension.  send_personal_message returns at once for a client
\* with no mapping and the flag is set on the loaded row; for a mapped client
\* the call suspends in send_text.
RECURSIVE RunSweep(_, _)
RunSweep(sw, reg) ==
    IF sw.todo = <<>> THEN [sw EXCEPT !.pc = "commit", !.cur = Unbound,
                                      !.client = "none", !.ws = Unbound]
    ELSE LET a == Head(sw.todo)
             c == appointments[a].client_id
         IN IF Mapped(reg, c)
            THEN [sw EXCEPT !.pc = "send", !.todo = Tail(@), !.cur = a, !.client = c,
                            !.ws = Lookup(reg, c), !.handed = @ \cup {a},
                            !.attempted = @ \cup {a}]
            ELSE RunSweep([sw EXCEPT !.todo = Tail(@), !.handed = @ \cup {a},
                                     !.dirty = @ \cup {a}], reg)

\* the table after a commit of the flags set on the rows of ids
Flagged(ids) ==
    [i \in AppointmentIds |->
        IF i \in ids THEN [appointments[i] EXCEPT !.reminder_sent = TRUE]
        ELSE appointments[i]]

\* scheduler.py 150: the rows the commit of the sweep writes
FlagOnCommit(sw) == Flagged(sw.dirty)

\* a failed run whose flags reach the table all the same
RolledBack_Kept(sw) == Flagged(sw.dirty)

\* scheduler.py 153-155: the table after db.rollback() on the session of the
\* run: the flags set on its loaded rows are dropped
RolledBack(sw) == appointments

\* scheduler.py 150-157: where the loop has ended the sweep commits, or the
\* commit raises and the session is rolled back
SweepAdvance(sw) ==
    IF sw.pc = "send"
    THEN sweep' = sw /\ UNCHANGED appointments
    ELSE \/ /\ appointments' = FlagOnCommit(sw)
            /\ sweep' = [sw EXCEPT !.pc = "done", !.outcome = "committed"]
         \/ /\ appointments' = RolledBack(sw)
            /\ sweep' = [sw EXCEPT !.pc = "done", !.outcome = "rolled_back"]

\* scheduler.py 94-112 and the loop up to its first suspension, or the query
\* raises and the run ends in the except branch with nothing loaded.  The job
\* fires only while the scheduler runs, one instance at a time.
SweepStart ==
    /\ is_running
    /\ JobsYielded
    /\ sweep.pc = "idle"
    /\ \/ LET ids == {i \in AppointmentIds : NeedsReminder(appointments[i])}
          IN SweepAdvance(RunSweep([SweepIdle EXCEPT !.todo = Rows(ids, 1), !.snapshot = ids],
                                   active_connections))
       \/ /\ sweep' = [SweepIdle EXCEPT !.pc = "done", !.outcome = "rolled_back"]
          /\ appointments' = RolledBack(SweepIdle)
    /\ UNCHANGED <<active_connections, chan, outbox, wsVars, storeVars, restVars,
                   mgrVars, notify, ran, is_running, schedVars>>

\* scheduler.py 136-148: the send_text of the push returns or raises inside
\* send_personal_message, which returns in both cases; the flag is set and the
\* loop goes on
SweepSend ==
    /\ JobsYielded
    /\ sweep.pc = "send"
    /\ \E ok \in SocketOutcomes(sweep.ws) :
          LET reg == IF ok THEN active_connections
                     ELSE disconnect(active_connections, sweep.client)
              sw  == [sweep EXCEPT !.dirty = @ \cup {sweep.cur},
                                   !.failed = IF ok THEN @ ELSE @ \cup {sweep.cur}]
          IN /\ chan' = After(sweep.ws, ok)
             /\ active_connections' = reg
             /\ net' = IF ok THEN net ELSE [net EXCEPT ![sweep.client] = FALSE]
             /\ reminders' = IF ok THEN Received_Reminder(reminders, sweep.cur)
                             ELSE reminders
             /\ SweepAdvance(RunSweep(sw, reg))
    /\ UNCHANGED <<outbox, wsVars, storeVars, restVars, bcast, psend,
                   notify, ran, is_running, upcoming, jobs, calls, clock>>

\* scheduler.py 156-157: the session is closed and the job returns
SweepEnd ==
    /\ sweep.pc = "done"
    /\ sweep' = SweepIdle
    /\ UNCHANGED <<active_connections, chan, outbox, wsVars, storeVars, restVars,
                   mgrVars, appointments, notify, ran, is_running, schedVars>>

\* calls of start() and shutdown() a behaviour makes
MaxCalls == 4

\* the scheduler as start() and shutdown() see it
SchedulerState == [is_running |-> is_running, jobs |-> jobs]

\* scheduler.py 30-42: a call of start(), in any state of the scheduler
SchedulerStart ==
    /\ Len(calls) < MaxCalls
    /\ JobsYielded
    /\ is_running' = start(SchedulerState).is_running
    /\ jobs' = start(SchedulerState).jobs
    /\ calls' = Append(calls, "start")
    /\ UNCHANGED <<active_connections, chan, outbox, wsVars, storeVars, restVars,
                   mgrVars, appointments, sweep, notify, ran, upcoming,
                   clock, reminders>>

\* scheduler.py 44-51: a call of shutdown(), in any state of the scheduler.
\* On a running scheduler no job fires any more; a run that is suspended in a
\* push is left to finish or is cancelled at its await, and then its session
\* is closed with nothing committed
SchedulerShutdown ==
    /\ Len(calls) < MaxCalls
    /\ JobsYielded
    /\ is_running' = shutdown(SchedulerState).is_running
    /\ jobs' = shutdown(SchedulerState).jobs
    /\ calls' = Append(calls, "shutdown")
    /\ sweep' \in {sweep} \cup
                  (IF is_running /\ sweep.pc = "send"
                   THEN {[sweep EXCEPT !.pc = "done", !.outcome = "cancelled"]} ELSE {})
    /\ upcoming' \in {upcoming} \cup
                     (IF is_running /\ upcoming.pc = "send"
                      THEN {[upcoming EXCEPT !.pc = "done"]} ELSE {})
    /\ UNCHANGED <<active_connections, chan, outbox, wsVars, storeVars, restVars,
                   mgrVars, appointments, notify, ran, clock, reminders>>

\* main.py 461-470: the reply of GET /api/scheduler/jobs once the scheduler
\* is constructed; scheduler.py 348-358 lists the jobs of the store
get_scheduler_jobs ==
    [status |-> IF is_running THEN "running" ELSE "stopped", jobs |-> jobs]

\* main.py 43-45: the shutdown of the application calls shutdown() on the
\* scheduler it has started
Shutdown == is_running /\ SchedulerShutdown

\* main.py 317-332, 377-381: the notification of the client, up to the await
\* of its send_text; with no mapping the request ends at once
Notify(c) ==
    notify' = IF Mapped(active_connections, c)
              THEN [pc |-> "send", client |-> c, ws |-> Lookup(active_connections, c)]
              ELSE NotifyIdle

\* main.py 311-315: the client's last appointment date, when the row exists
TouchClient(c, d) ==
    {IF r.id = c THEN [r EXCEPT !.last_appointment_date = {d}] ELSE r : r \in clients}

\* main.py 299-337: create_appointment (a commit that raises ends the request
\* with nothing written: no step)
CreateAppointment(c, d) ==
    /\ is_running
    /\ JobsYielded
    /\ notify.pc = "idle"
    /\ Len(appointments) < MaxAppts
    /\ appointments' = Append(appointments, AppointmentRow(c, d))
    /\ clients' = TouchClient(c, d)
    /\ Notify(c)
    /\ UNCHANGED <<active_connections, chan, outbox, wsVars, conversations, messages,
                   restVars, mgrVars, sweep, ran, is_running, schedVars>>

\* an update that keeps the flag when the date changes
Reschedule_KeepFlag(a, d) == [a EXCEPT !.scheduled_date = d]

\* main.py 357-359
Reschedule(a, d) == [a EXCEPT !.scheduled_date = d, !.reminder_sent = FALSE]

\* main.py 355-359: the row as update_appointment leaves it.  A status left
\* out is "None"; the date parameter is a set, empty when it is left out
update_appointment(a, status, scheduled_date) ==
    LET b == IF status # "None" THEN [a EXCEPT !.status = status] ELSE a
    IN IF scheduled_date # {}
       THEN Reschedule(b, CHOOSE d \in scheduled_date : TRUE) ELSE b

\* main.py 344-365: update_appointment
UpdateAppointment(id, status, scheduled_date) ==
    /\ is_running
    /\ JobsYielded
    /\ id \in AppointmentIds
    /\ appointments' = [appointments EXCEPT
                           ![id] = update_appointment(@, status, scheduled_date)]
    /\ UNCHANGED <<active_connections, chan, outbox, wsVars, storeVars, restVars,
                   mgrVars, sweep, notify, ran, is_running, schedVars>>

\* main.py 351-353: update_appointment for an id that has no row
UpdateMissing(id) ==
    /\ is_running
    /\ JobsYielded
    /\ rest.pc = "idle"
    /\ id \notin AppointmentIds
    /\ rest' = HttpNotFound("Appointment not found")
    /\ UNCHANGED <<active_connections, chan, outbox, wsVars, storeVars, nrest,
                   mgrVars, jobVars>>

\* main.py 369-371: cancel_appointment for an id that has no row
CancelMissing(id) ==
    /\ is_running
    /\ JobsYielded
    /\ rest.pc = "idle"
    /\ id \notin AppointmentIds
    /\ rest' = HttpNotFound("Appointment not found")
    /\ UNCHANGED <<active_connections, chan, outbox, wsVars, storeVars, nrest,
                   mgrVars, jobVars>>

\* main.py 367-383: cancel_appointment
CancelAppointment(id) ==
    /\ is_running
    /\ JobsYielded
    /\ notify.pc = "idle"
    /\ id \in AppointmentIds
    /\ appointments' = [appointments EXCEPT ![id].status = "cancelled"]
    /\ Notify(appointments[id].client_id)
    /\ UNCHANGED <<active_connections, chan, outbox, wsVars, storeVars, restVars,
                   mgrVars, sweep, ran, is_running, schedVars>>

\* websocket_manager.py 31-38 for the notification of a request
NotifySend ==
    /\ JobsYielded
    /\ notify.pc = "send"
    /\ \E ok \in SocketOutcomes(notify.ws) :
          /\ chan' = After(notify.ws, ok)
          /\ active_connections' = IF ok THEN active_connections
                                   ELSE disconnect(active_connections, notify.client)
          /\ net' = IF ok THEN net ELSE [net EXCEPT ![notify.client] = FALSE]
    /\ notify' = NotifyIdle
    /\ UNCHANGED <<outbox, wsVars, storeVars, restVars, bcast, psend,
                   appointments, sweep, ran, is_running, schedVars>>

\* a reconciliation that completes every appointment of the past
Completed_AnyStatus(apps) ==
    [i \in DOMAIN apps |->
        IF apps[i].scheduled_date < Now - CleanupGrace
        THEN [apps[i] EXCEPT !.status = "completed"] ELSE apps[i]]

\* scheduler.py 211-222
Completed(apps) ==
    [i \in DOMAIN apps |->
        IF IsPast(apps[i]) THEN [apps[i] EXCEPT !.status = "completed"] ELSE apps[i]]

\* scheduler.py 225-234
ResetRescheduled(apps) ==
    [i \in DOMAIN apps |->
        IF IsRescheduled(apps[i]) THEN [apps[i] EXCEPT !.reminder_sent = FALSE] ELSE apps[i]]

\* scheduler.py 198-242: daily_cleanup awaits nothing.  Either commit can
\* raise: the first leaves the table as it was, the second keeps the
\* completions and loses the resets.
DailyCleanup ==
    /\ is_running
    /\ JobsYielded
    /\ \/ /\ appointments' = ResetRescheduled(Completed(appointments))
          /\ ran' = "ok"
       \/ /\ appointments' = Completed(appointments)
          /\ ran' = "failed"
       \/ /\ UNCHANGED appointments
          /\ ran' = "failed"
    /\ UNCHANGED <<active_connections, chan, outbox, wsVars, storeVars, restVars,
                   mgrVars, sweep, notify, is_running, schedVars>>

\* scheduler.py 241-242: the session is closed and the job returns
CleanupEnd ==
    /\ ran # "none"
    /\ ran' = "none"
    /\ UNCHANGED <<active_connections, chan, outbox, wsVars, storeVars, restVars,
                   mgrVars, appointments, sweep, notify, is_running, schedVars>>

\* ----------------------------------------- check_upcoming_appointments
\* timedelta(minutes=30) of scheduler.py 168
SoonWindow == 30 * Minute
\* the limit of the urgent text, scheduler.py 180
UrgentMinutes == 15

\* a filter that leaves the status out
IsUpcoming_AnyStatus(a) ==
    /\ a.scheduled_date >= Now
    /\ a.scheduled_date <= Now + SoonWindow

\* the filter of scheduler.py 170-174
IsUpcoming(a) ==
    /\ a.status = "confirmed"
    /\ a.scheduled_date >= Now
    /\ a.scheduled_date <= Now + SoonWindow

\* scheduler.py 178: int((scheduled_date - now).total_seconds() / 60), on a
\* date that is not before now
minutes_until(a) == (a.scheduled_date - Now) \div Minute

\* scheduler.py 178-183: the notice of a loaded row: which of the two texts,
\* and the number of minutes it names
UpcomingNotice(id, a) ==
    [id |-> id, client_id |-> a.client_id, scheduled_date |-> a.scheduled_date,
     minutes |-> minutes_until(a),
     text |-> IF minutes_until(a) <= UrgentMinutes THEN "starts in" ELSE "Reminder"]

\* the notices of the rows of a query, by id
RECURSIVE Notices(_, _)
Notices(S, from) ==
    IF from > Len(appointments) THEN <<>>
    ELSE IF from \in S
    THEN <<UpcomingNotice(from, appointments[from])>> \o Notices(S, from + 1)
    ELSE Notices(S, from + 1)

\* scheduler.py 176-191: the loop from its current position to its next
\* suspension.  send_personal_message returns at once for a client with no
\* mapping; for a mapped client the call suspends in send_text.  After the
\* last row the session is closed.
RECURSIVE RunUpcoming(_, _)
RunUpcoming(up, reg) ==
    IF up.todo = <<>> THEN [up EXCEPT !.pc = "done", !.cur = Unbound,
                                      !.client = "none", !.ws = Unbound]
    ELSE LET n == Head(up.todo)
         IN IF Mapped(reg, n.client_id)
            THEN [up EXCEPT !.pc = "send", !.todo = Tail(@), !.cur = n.id,
                            !.client = n.client_id, !.ws = Lookup(reg, n.client_id),
                            !.handed = @ \cup {n}]
            ELSE RunUpcoming([up EXCEPT !.todo = Tail(@), !.handed = @ \cup {n}], reg)

\* scheduler.py 159-176 and the loop up to its first suspension
UpcomingStart ==
    /\ is_running
    /\ JobsYielded
    /\ upcoming.pc = "idle"
    /\ LET ids == {i \in AppointmentIds : IsUpcoming(appointments[i])}
       IN upcoming' = RunUpcoming([UpcomingIdle EXCEPT !.todo = Notices(ids, 1),
                                                      !.selected = ids,
                                                      !.prev = upcoming.prev],
                                  active_connections)
    /\ UNCHANGED <<active_connections, chan, outbox, wsVars, storeVars, restVars,
                   mgrVars, appointments, sweep, notify, ran, is_running, jobs, calls, clock, reminders>>

\* scheduler.py 185-191: the send_text of the push returns or raises inside
\* send_personal_message, which returns in both cases, and the loop goes on
UpcomingSend ==
    /\ JobsYielded
    /\ upcoming.pc = "send"
    /\ \E ok \in SocketOutcomes(upcoming.ws) :
          LET reg == IF ok THEN active_connections
                     ELSE disconnect(active_connections, upcoming.client)
          IN /\ chan' = After(upcoming.ws, ok)
             /\ active_connections' = reg
             /\ net' = IF ok THEN net ELSE [net EXCEPT ![upcoming.client] = FALSE]
             /\ upcoming' = RunUpcoming(upcoming, reg)
    /\ UNCHANGED <<outbox, wsVars, storeVars, restVars, bcast, psend,
                   appointments, sweep, notify, ran, is_running, jobs, calls, clock, reminders>>

\* scheduler.py 195-196: the job returns; the notices of the run are kept as
\* those of the run before
UpcomingEnd ==
    /\ upcoming.pc = "done"
    /\ upcoming' = [UpcomingIdle EXCEPT !.prev = {n.id : n \in upcoming.handed}]
    /\ UNCHANGED <<active_connections, chan, outbox, wsVars, storeVars, restVars,
                   mgrVars, appointments, sweep, notify, ran, is_running, jobs, calls, clock, reminders>>

\* main.py 66: a session handler registers its socket, while the server is up
ClientConnects(ws, c) == is_running /\ JobsYielded /\ MgrConnect(ws, c)

\* main.py 175-176, 193-195: the handler of a registered socket ends, the
\* socket being closed, and removes the entry of its client id
ClientLeaves(ws) ==
    /\ is_running /\ JobsYielded
    /\ <<client_id[ws], ws>> \in active_connections
    /\ chan' = [chan EXCEPT ![ws] = "closed"]
    /\ active_connections' = disconnect(active_connections, client_id[ws])
    /\ net' = [net EXCEPT ![client_id[ws]] = FALSE]
    /\ UNCHANGED <<outbox, wsVars, storeVars, restVars, bcast, psend, jobVars>>

\* dates of the requests of the reminder model: the limits of the window
SweepDates == {Now, Now + ReminderWindow, Now + ReminderWindow + 1}

NextScheduler ==
    \/ \E ws \in Handles, c \in Clients : ClientConnects(ws, c)
    \/ \E ws \in Handles : ClientLeaves(ws)
    \/ \E c \in Clients, d \in SweepDates : CreateAppointment(c, d)
    \/ \E id \in 1..MaxAppts, st \in Statuses \cup {"None"},
          d \in {{}} \cup {{x} : x \in SweepDates} : UpdateAppointment(id, st, d)
    \/ \E id \in 1..MaxAppts : CancelAppointment(id)
    \/ NotifySend
    \/ SweepStart
    \/ SweepSend
    \/ SweepEnd
    \/ DailyCleanup
    \/ CleanupEnd
    \/ Shutdown

\* the reminder sweep with the registry, the appointment requests, the
\* reconciliation and the shutdown
SpecScheduler == Init /\ [][NextScheduler]_vars

NextAppointments ==
    \/ \E c \in Clients, d \in Dates : CreateAppointment(c, d)
    \/ \E id \in 1..MaxAppts, st \in Statuses \cup {"None"},
          d \in {{}} \cup {{x} : x \in Dates} : UpdateAppointment(id, st, d)
    \/ \E id \in 1..MaxAppts : CancelAppointment(id)
    \/ SweepStart
    \/ SweepEnd
    \/ DailyCleanup
    \/ CleanupEnd

\* the appointment requests and the jobs over the table, nobody connected
SpecAppointments == Init /\ [][NextAppointments]_vars

\* dates of the requests of the imminent-appointment model: on both sides of
\* the limits of the window and of the urgent text
UpcomingDates ==
    {Now - 1, Now + UrgentMinutes * Minute, Now + UrgentMinutes * Minute + 30,
     Now + SoonWindow, Now + SoonWindow + 1}

NextUpcoming ==
    \/ \E ws \in Handles, c \in Clients : ClientConnects(ws, c)
    \/ \E ws \in Handles : ClientLeaves(ws)
    \/ \E c \in Clients, d \in UpcomingDates : CreateAppointment(c, d)
    \/ \E id \in 1..MaxAppts, st \in {"confirmed", "cancelled"} : UpdateAppointment(id, st, {})
    \/ NotifySend
    \/ UpcomingStart
    \/ UpcomingSend
    \/ UpcomingEnd

\* the imminent-appointment sweep with the registry and the appointment requests
SpecUpcoming == Init /\ [][NextUpcoming]_vars

\* the requests that look a row up, on ids and client ids with and without a
\* row, with clients connected
NextNotFound ==
    \/ \E c \in Clients : GetClient(c)
    \/ \E ws \in Handles, c \in Clients : ClientConnects(ws, c)
    \/ \E c \in Clients : CreateAppointment(c, Now)
    \/ \E id \in 1..MaxAppts, st \in {"confirmed", "None"} : UpdateAppointment(id, st, {})
    \/ \E id \in 1..MaxAppts : CancelAppointment(id)
    \/ \E id \in 1..MaxAppts : UpdateMissing(id)
    \/ \E id \in 1..MaxAppts : CancelMissing(id)
    \/ NotifySend
    \/ \E c \in Clients : OutreachStart(c)
    \/ OutreachSend

SpecNotFound == Init /\ [][NextNotFound]_vars

\* dates of the requests of the outreach model: on both sides of the limits
\* of the suggestion, and one in the future
FollowUpDates ==
    {Now - 91 * Day, Now - 91 * Day + 1, Now - 31 * Day, Now - 31 * Day + 1, Now + 1}

NextFollowUp ==
    \/ \E c \in Clients : GetClient(c)
    \/ \E c \in Clients, d \in FollowUpDates : CreateAppointment(c, d)
    \/ \E c \in Clients : OutreachStart(c)

\* on-demand outreach for clients with appointments, nobody connected
SpecFollowUp == Init /\ [][NextFollowUp]_vars

\* main.py 39, scheduler.py 25-28: the scheduler is constructed and start() has
\* not been called: the flag is unset and the job store is empty
InitLifecycle ==
    /\ active_connections = {}
    /\ pc = [h \in Handles |-> "idle"]
    /\ client_id = [h \in Handles |-> "none"]
    /\ chan = [h \in Handles |-> "open"]
    /\ conversation = [h \in Handles |-> Unbound]
    /\ data = [h \in Handles |-> NoFrame]
    /\ nrecv = [h \in Handles |-> 0]
    /\ ai_response = [h \in Handles |-> NoResponse]
    /\ pending = [h \in Handles |-> <<>>]
    /\ outbox = [h \in Handles |-> <<>>]
    /\ result = [h \in Handles |-> "none"]
    /\ clients = {}
    /\ conversations = <<>>
    /\ messages = <<>>
    /\ rest = [pc |-> "idle", client |-> "none", ws |-> Unbound, follow_up |-> "None", outcome |-> "none"]
    /\ nrest = 0
    /\ bcast = BroadcastIdle
    /\ psend = SendIdle
    /\ net = [c \in Clients |-> FALSE]
    /\ appointments = <<>>
    /\ sweep = SweepIdle
    /\ notify = NotifyIdle
    /\ ran = "none"
    /\ is_running = FALSE
    /\ upcoming = UpcomingIdle
    /\ jobs = <<>>
    /\ calls = <<>>
    /\ clock = 0
    /\ reminders = NoReminders

NextLifecycle ==
    \/ SchedulerStart
    \/ SchedulerShutdown
    \/ \E ws \in Handles : ClientConnects(ws, "c1")
    \/ CreateAppointment("c1", Now + SoonWindow)
    \/ \E id \in 1..MaxAppts : UpdateAppointment(id, "confirmed", {})
    \/ NotifySend
    \/ SweepStart
    \/ SweepSend
    \/ SweepEnd
    \/ UpcomingStart
    \/ UpcomingSend
    \/ UpcomingEnd
    \/ DailyCleanup
    \/ CleanupEnd

\* calls of start() and shutdown() in any order, with the jobs over the
\* appointments of one client and its connections
SpecLifecycle == InitLifecycle /\ [][NextLifecycle]_vars

\* a request or a job that starts while no reminder sweep is in flight
Between(A) == sweep.pc = "idle" /\ A

\* dates of the requests of the idempotence model: the limits of the reminder
\* window and a date the reconciliation completes
IdempotentDates == {Now - CleanupGrace - 1, Now + 1, Now + ReminderWindow}

NextIdempotent ==
    \/ \E ws \in Handles, c \in Clients : Between(ClientConnects(ws, c))
    \/ \E c \in Clients, d \in IdempotentDates : Between(CreateAppointment(c, d))
    \/ \E id \in 1..MaxAppts : Between(UpdateAppointment(id, "confirmed", {}))
    \/ Between(NotifySend)
    \/ Between(DailyCleanup)
    \/ CleanupEnd
    \/ SweepStart
    \/ SweepSend
    \/ SweepEnd

\* the reminder sweep and the reconciliation with the requests between their
\* runs: nothing else runs while a sweep is suspended in a push
SpecIdempotent == Init /\ [][NextIdempotent]_vars

\* reminder pushes the model keeps in `reminders`
MaxKept == 2

\* the state of Init, with the reminder pushes the peers receive kept
InitOnce ==
    /\ active_connections = {}
    /\ pc = [h \in Handles |-> "idle"]
    /\ client_id = [h \in Handles |-> "none"]
    /\ chan = [h \in Handles |-> "open"]
    /\ conversation = [h \in Handles |-> Unbound]
    /\ data = [h \in Handles |-> NoFrame]
    /\ nrecv = [h \in Handles |-> 0]
    /\ ai_response = [h \in Handles |-> NoResponse]
    /\ pending = [h \in Handles |-> <<>>]
    /\ outbox = [h \in Handles |-> <<>>]
    /\ result = [h \in Handles |-> "none"]
    /\ clients = {}
    /\ conversations = <<>>
    /\ messages = <<>>
    /\ rest = [pc |-> "idle", client |-> "none", ws |-> Unbound, follow_up |-> "None", outcome |-> "none"]
    /\ nrest = 0
    /\ bcast = BroadcastIdle
    /\ psend = SendIdle
    /\ net = [c \in Clients |-> FALSE]
    /\ appointments = <<>>
    /\ sweep = SweepIdle
    /\ notify = NotifyIdle
    /\ ran = "none"
    /\ is_running = TRUE
    /\ upcoming = UpcomingIdle
    /\ jobs = ScheduledJobs
    /\ calls = <<"start">>
    /\ clock = 0
    /\ reminders = [NoReminders EXCEPT !.keep = MaxKept]

\* no request of this model changes a scheduled date, and no client leaves
NextOnce ==
    \/ \E ws \in Handles : ClientConnects(ws, "c1")
    \/ CreateAppointment("c1", Now + SoonWindow)
    \/ \E id \in 1..MaxAppts : UpdateAppointment(id, "confirmed", {})
    \/ NotifySend
    \/ SweepStart
    \/ SweepSend
    \/ SweepEnd
    \/ UpcomingStart
    \/ UpcomingSend
    \/ UpcomingEnd
    \/ DailyCleanup
    \/ CleanupEnd

\* the three jobs over appointments whose dates stay as they were created,
\* for a client that connects and does not leave
SpecOnce == InitOnce /\ [][NextOnce]_vars

\* the date a reschedule of this model moves an appointment to: past the
\* reminder window, so that no sweep selects a row that carries it
RescheduledDate == Now + ReminderWindow + Hour

\* main.py 344-365 called while the reminder sweep is suspended in the push
\* for the same appointment (scheduler.py 136): the request runs to its
\* commit before send_text returns
RescheduleDuringPush(id) ==
    /\ sweep.pc = "send"
    /\ sweep.cur = id
    /\ UpdateAppointment(id, "None", {RescheduledDate})

NextReschedule ==
    \/ \E ws \in Handles : ClientConnects(ws, "c1")
    \/ CreateAppointment("c1", Now + SoonWindow)
    \/ \E id \in 1..MaxAppts : UpdateAppointment(id, "confirmed", {})
    \/ \E id \in 1..MaxAppts : RescheduleDuringPush(id)
    \/ NotifySend
    \/ SweepStart
    \/ SweepSend
    \/ SweepEnd

\* the reminder sweep with reschedules that arrive only while it is suspended
\* in the push of the appointment they move
SpecReschedule == Init /\ [][NextReschedule]_vars

\* hours of the clock a behaviour covers: one more than the reminder window,
\* the distance of the dates the requests of SpecPromise carry
MaxHours == 25

\* the filter of scheduler.py 107-112 in a run that reads utcnow() as `now`
NeedsReminderAt(a, now) ==
    /\ a.status = "confirmed"
    /\ a.reminder_sent = FALSE
    /\ a.scheduled_date >= now
    /\ a.scheduled_date <= now + ReminderWindow

\* scheduler.py 57-63 and 94-112: CronTrigger(minute=0) fires at the next full
\* hour and the sweep runs with that time, as SweepStart does with the time
\* of the state
HourlySweep ==
    /\ is_running
    /\ JobsYielded
    /\ sweep.pc = "idle"
    /\ clock < MaxHours * Hour
    /\ clock' = clock + Hour
    /\ \/ LET ids == {i \in AppointmentIds : NeedsReminderAt(appointments[i], clock')}
          IN SweepAdvance(RunSweep([SweepIdle EXCEPT !.todo = Rows(ids, 1), !.snapshot = ids],
                                   active_connections))
       \/ /\ sweep' = [SweepIdle EXCEPT !.pc = "done", !.outcome = "rolled_back"]
          /\ appointments' = RolledBack(SweepIdle)
    /\ UNCHANGED <<active_connections, chan, outbox, wsVars, storeVars, restVars,
                   mgrVars, notify, ran, is_running, upcoming, jobs, calls, reminders>>

\* PATCH /api/appointments/2 with status "confirmed": the only update of
\* SpecPromise, so that the first appointment stays as it was created
ConfirmSecond == UpdateAppointment(2, "confirmed", {})

NextPromise ==
    \/ \E ws \in Handles : ClientConnects(ws, "c1")
    \/ CreateAppointment("c1", Now + ReminderWindow + Hour)
    \/ ConfirmSecond
    \/ NotifySend
    \/ HourlySweep
    \/ SweepSend
    \/ SweepEnd

\* time passes from one hourly trigger to the next, and the reminder sweep
\* runs at every one of them; appointments are created 25 hours ahead
SpecPromise == Init /\ [][NextPromise]_vars

\* ================================================================ claims
\* rows of the store, read without the helpers of the model
ActiveOf(c) ==
    {i \in 1..Len(conversations) :
        conversations[i].client_id = c /\ conversations[i].status = "active"}

RowsOf(ws, k, sender) ==
    {i \in 1..Len(messages) :
        messages[i].ws = ws /\ messages[i].k = k /\ messages[i].sender_type = sender}

Connected(h) == pc[h] \notin {"idle", "done"}

\* C1: in every reachable state each client has at most one conversation with
\* status active, whatever the interleaving of sessions, disconnects, two
\* connections with one client id and outreach requests.
C1_AtMostOneActive == \A c \in Clients : Cardinality(ActiveOf(c)) <= 1

\* two open connections with one client id share the active conversation, and
\* an outreach conversation of that client exists beside it
C1_Witness ==
    \E g, h \in Handles :
        /\ g # h /\ client_id[g] = client_id[h]
        /\ conversation[g] # Unbound /\ conversation[g] = conversation[h]
        /\ pc[g] = "receive" /\ pc[h] = "receive"
        /\ conversations[conversation[g]].status = "active"
        /\ \E i \in 1..Len(conversations) :
              conversations[i].status = "outreach"
              /\ conversations[i].client_id = client_id[g]

\* no connection of client c has left its loop
NoneEnded(c) ==
    \A g \in Handles :
        client_id[g] = c => pc[g] \notin {"except_disconnect", "except_error", "done"}

Sent(h, type, k) ==
    \E n \in 1..Len(outbox[h]) : outbox[h][n].type = type /\ outbox[h][n].k = k

\* C2: while a client sends its messages without any of its connections
\* ending, every message of a connection is in one conversation, which is the
\* client's and is active; the rows of a connection are stored in arrival
\* order, each inbound row directly followed by its assistant row; and message
\* k+1 is received only after the rows, the response payload and the actions of
\* message k are done.
C2_OrderedSession ==
    /\ \A h \in Handles :
          Connected(h) /\ NoneEnded(client_id[h]) =>
              /\ \A i \in 1..Len(messages) :
                    messages[i].ws = h => messages[i].conversation_id = conversation[h]
              /\ conversation[h] # Unbound =>
                    /\ conversations[conversation[h]].client_id = client_id[h]
                    /\ conversations[conversation[h]].status = "active"
    /\ \A i \in 1..Len(messages) :
          messages[i].ws # Unbound =>
              /\ messages[i].sender_type = "assistant" =>
                    /\ i > 1
                    /\ messages[i - 1].ws = messages[i].ws
                    /\ messages[i - 1].k = messages[i].k
                    /\ messages[i - 1].sender_type = "client"
                    /\ messages[i - 1].conversation_id = messages[i].conversation_id
              /\ \A j \in (i + 1)..Len(messages) :
                    messages[j].ws = messages[i].ws => messages[j].k >= messages[i].k
              /\ messages[i].sender_type = "client" /\ messages[i].k < nrecv[messages[i].ws] =>
                    /\ i < Len(messages)
                    /\ messages[i + 1].ws = messages[i].ws
                    /\ messages[i + 1].sender_type = "assistant"
    /\ \A h \in Handles :
          /\ \A k \in 1..(nrecv[h] - 1) :
                /\ Cardinality(RowsOf(h, k, "client")) = 1
                /\ Cardinality(RowsOf(h, k, "assistant")) = 1
                /\ Sent(h, "message", k)
          /\ pc[h] \in {"receive", "find_conv", "save_user", "respond", "save_ai", "send_response"}
                => pending[h] = <<>>
          /\ pc[h] = "receive" /\ nrecv[h] >= 1 =>
                /\ Cardinality(RowsOf(h, nrecv[h], "assistant")) = 1
                /\ Sent(h, "message", nrecv[h])

\* a connection has had two messages answered, with the slots of one pushed,
\* and waits for the third
C2_Witness ==
    \E h \in Handles :
        /\ pc[h] = "receive" /\ nrecv[h] = 2
        /\ Sent(h, "available_slots", 1)
        /\ Len(messages) = 4
        /\ \A i \in 1..4 : messages[i].conversation_id = conversation[h]

\* C3: the step that completes the processing of an inbound message leaves
\* exactly one client row with the connection's client id and exactly one
\* active conversation owned by it, also when get_client ran for the same id
\* at any earlier point.
C3_OneClientOneConversation ==
    [][\A h \in Handles :
          pc[h] = "save_ai" /\ pc'[h] = "send_response" =>
              /\ Cardinality({r \in clients' : r.id = client_id[h]}) = 1
              /\ Cardinality({i \in 1..Len(conversations') :
                                 /\ conversations'[i].client_id = client_id[h]
                                 /\ conversations'[i].status = "active"}) = 1
              /\ conversations'[conversation'[h]].client_id = client_id[h]
              /\ conversations'[conversation'[h]].status = "active"]_vars

\* a first message has been processed for a client whose row get_client made
C3_Witness ==
    \E h \in Handles :
        /\ pc[h] = "send_response" /\ nrecv[h] = 1
        /\ clients = {ClientRow(client_id[h], "Demo User")}
        /\ Len(conversations) = 1
        /\ conversations[1].status = "active"
        /\ Len(messages) = 2

\* C4: the responder is called only once the inbound row is committed, the
\* response exists and is sent only once the assistant row is committed, and
\* every response payload a peer received answers a persisted inbound row.
C4_DurabilityBeforeRespond ==
    \A h \in Handles :
        /\ pc[h] = "respond" =>
              \E i \in RowsOf(h, nrecv[h], "client") :
                  messages[i].content = data[h].content
        /\ ai_response[h] # NoResponse => RowsOf(h, nrecv[h], "client") # {}
        /\ pc[h] = "send_response" =>
              \E i \in RowsOf(h, nrecv[h], "assistant") :
                  messages[i].content = ai_response[h].response
        /\ \A n \in 1..Len(outbox[h]) :
              outbox[h][n].type = "message" /\ outbox[h][n].k > 0 =>
                  /\ RowsOf(h, outbox[h][n].k, "client") # {}
                  /\ \E i \in RowsOf(h, outbox[h][n].k, "assistant") :
                        messages[i].content = outbox[h][n].content

\* a response payload has reached a peer
C4_Witness ==
    \E h \in Handles : Sent(h, "message", 1) /\ pc[h] = "dispatch"

\* the last payload the peer of h received
LastSent(h) == outbox[h][Len(outbox[h])]

\* C5: a responder that is unavailable or fails yields the canned fallback and
\* no error: for a message whose content is a string (the wire contract) the
\* call always returns into the pipeline, the fallback has a
\* non-empty text, the send of the response delivers a payload of type message
\* with that text while the inbound and the fallback row are persisted, and
\* the loop then goes back to receive.
C5_FallbackResponse ==
    [][\A h \in Handles :
          /\ pc[h] = "respond" /\ data[h].is_str /\ pc'[h] # pc[h] =>
                /\ pc'[h] = "save_ai"
                /\ ai_response'[h].response # ""
          /\ pc[h] = "send_response" /\ ai_response[h].source = "fallback"
                /\ outbox'[h] # outbox[h] =>
                /\ LastSent(h)'.type = "message"
                /\ LastSent(h)'.content = ai_response[h].response
                /\ LastSent(h)'.content # ""
                /\ \E i \in RowsOf(h, nrecv[h], "client") : messages[i + 1].content = LastSent(h)'.content
                /\ pc'[h] = "dispatch"
                /\ pending'[h] = <<>>
          /\ pc[h] = "dispatch" /\ pending[h] = <<>> /\ pc'[h] # pc[h] =>
                pc'[h] = "receive"]_vars

\* after a first message answered by the fallback, the loop has received the
\* second message
C5_Witness ==
    \E h \in Handles :
        /\ nrecv[h] = 2 /\ pc[h] = "find_conv"
        /\ \E n \in 1..Len(outbox[h]) :
              /\ outbox[h][n].type = "message" /\ outbox[h][n].k = 1
              /\ outbox[h][n].content = "I can help you schedule an appointment."

\* C6: a connection that ends by a disconnect with a conversation that holds
\* messages leaves that conversation ended, with an end time and a non-empty
\* summary, once the finalization has committed; one that ends by a disconnect
\* before any message changes no conversation; and a conversation has a
\* summary only if it has messages and is ended.
C6_SummaryOnDisconnect ==
    /\ [][\A h \in Handles :
             pc[h] = "except_disconnect" /\ pc'[h] = "done" =>
                 IF conversation[h] # Unbound /\ MessagesOf(conversation[h]) # {}
                 THEN result'[h] = "returned" =>
                         /\ conversations'[conversation[h]].status = "ended"
                         /\ conversations'[conversation[h]].ended_at # "None"
                         /\ conversations'[conversation[h]].summary \notin {"None", ""}
                 ELSE conversations' = conversations]_vars
    /\ [](\A i \in 1..Len(conversations) :
             conversations[i].summary # "None" =>
                 /\ conversations[i].status = "ended"
                 /\ \E n \in 1..Len(messages) : messages[n].conversation_id = i)

\* one connection has ended by a disconnect after a message and left a
\* summary, another has ended by a disconnect before any message
C6_Witness ==
    \E g, h \in Handles :
        /\ pc[g] = "done" /\ result[g] = "returned" /\ conversation[g] # Unbound
        /\ conversations[conversation[g]].summary = "Conversation summary not available."
        /\ pc[h] = "done" /\ nrecv[h] = 0 /\ conversation[h] = Unbound
        /\ result[h] = "raised"

\* C7: once the loop of a connection has terminated, by a disconnect or by an
\* error, the conversation the loop used is no longer active and has an end
\* time.
C7_EndedAfterLoop ==
    \A h \in Handles :
        pc[h] = "done" /\ conversation[h] # Unbound =>
            /\ conversations[conversation[h]].status # "active"
            /\ conversations[conversation[h]].ended_at # "None"

\* C8: the connection handler never ends by raising, whatever ended its loop,
\* and once it has ended the registry does not map its client id to its socket.
C8_NothingPropagates ==
    \A h \in Handles :
        pc[h] = "done" =>
            /\ result[h] = "returned"
            /\ <<client_id[h], h>> \notin active_connections

\* h is the socket registered last for its client id
Latest(h) ==
    \A g \in Handles : client_id[g] = client_id[h] /\ pc[g] # "idle" => g <= h

\* C9: the registry holds at most one socket per client id; a connect maps
\* the client id to the new socket in place of any earlier one, leaves the
\* entries of other ids alone, grows the count by one exactly when the id was
\* not mapped, and done again would change nothing.
C9_ConnectReplaces ==
    /\ [](\A c \in Clients : Cardinality({p \in active_connections : p[1] = c}) <= 1)
    /\ [][\A h \in Handles :
             pc[h] = "idle" /\ pc'[h] # "idle" =>
                 LET c == client_id'[h] IN
                 /\ {p \in active_connections' : p[1] = c} = {<<c, h>>}
                 /\ {p \in active_connections' : p[1] # c} = {p \in active_connections : p[1] # c}
                 /\ Cardinality(active_connections') =
                        Cardinality(active_connections)
                        + (IF \E p \in active_connections : p[1] = c THEN 0 ELSE 1)
                 /\ connect(active_connections', h, c) = active_connections']_vars

\* a second socket has replaced the first one of the same client id while the
\* first is still open
C9_Witness ==
    \E g, h \in Handles :
        /\ g < h /\ client_id[g] = client_id[h]
        /\ Connected(g) /\ Connected(h)
        /\ active_connections = {<<client_id[h], h>>}

\* C10: a step of a stale socket's handler (its loop ending included) leaves
\* the registry entry of the socket registered last for that client id as it is.
C10_StaleHandleHarmless ==
    [][\A g, h \in Handles :
          /\ g # h /\ client_id[g] = client_id[h]
          /\ Latest(h) /\ Connected(h)
          /\ <<client_id[h], h>> \in active_connections
          /\ pc'[g] # pc[g]
          => <<client_id[h], h>> \in active_connections']_vars

\* C11: send_personal_message (called by send_outreach).  With no mapping for
\* c nothing is sent and the registry stays as it is; with a mapping and a
\* send that succeeds the registry stays as it is; when the send fails the
\* mapping of c is removed, the other mappings stay, and the caller goes on
\* to its end without an error.
C11_SendPersonalMessage ==
    [][/\ (rest.pc = "idle" /\ nrest' # nrest /\ rest'.pc = "idle" =>
              /\ active_connections' = active_connections
              /\ outbox' = outbox)
       /\ (rest.pc = "send" /\ rest'.pc = "idle" =>
              /\ rest'.outcome = "sent"
              /\ IF outbox'[rest.ws] # outbox[rest.ws]
                 THEN active_connections' = active_connections
                 ELSE /\ ~Mapped(active_connections', rest.client)
                      /\ {p \in active_connections' : p[1] # rest.client}
                             = {p \in active_connections : p[1] # rest.client})]_vars

\* an outreach send has failed on the only open connection: its handler is
\* still in its loop but the registry has no mapping for the client any more
C11_Witness ==
    /\ rest.outcome = "sent"
    /\ \E h \in Handles :
          /\ pc[h] \notin {"idle", "done"}
          /\ \A g \in Handles \ {h} : pc[g] = "idle"
          /\ chan[h] = "closed"
          /\ active_connections = {}
          /\ \E i \in 1..Len(conversations) :
                /\ conversations[i].status = "outreach"
                /\ conversations[i].client_id = client_id[h]

\* C12: a broadcast during which no other task changes the registry attempts
\* one send to every client registered when it started; a send that fails is
\* followed by the send to the next client; when the call returns, the clients
\* whose send failed, and only they, have lost their entry.
C12_BroadcastSweep ==
    [][/\ (/\ bcast.pc = "send" /\ bcast' # bcast /\ ~bcast'.disturbed
           /\ chan'[bcast.ws] = "closed"
           /\ bcast.start \ (bcast.visited \cup {bcast.client}) # {}
           => /\ bcast'.pc = "send"
              /\ bcast'.client \in bcast.start \ (bcast.visited \cup {bcast.client}))
       /\ (/\ bcast.pc = "send" /\ bcast'.pc = "done" /\ ~bcast'.disturbed
           => /\ bcast'.outcome = "returned"
              /\ bcast'.visited = bcast'.start
              /\ active_connections' =
                     {p \in active_connections : p[1] \notin bcast'.disconnected_clients}
              /\ Ids(active_connections') = bcast'.start \ bcast'.disconnected_clients
              /\ \A c \in bcast'.start :
                     c \in bcast'.disconnected_clients
                         <=> \E ws \in Handles : client_id[ws] = c /\ chan'[ws] = "closed"
                                                 /\ <<c, ws>> \in active_connections)]_vars

\* a broadcast over two clients has returned: the send to one failed and that
\* client is gone, the other was sent to and is still registered
C12_Witness ==
    /\ bcast.pc = "done" /\ bcast.outcome = "returned" /\ ~bcast.disturbed
    /\ bcast.start = Clients
    /\ Cardinality(bcast.disconnected_clients) = 1
    /\ Ids(active_connections) = Clients \ bcast.disconnected_clients

\* C13: whatever the interleaving of connect, disconnect and send calls, the
\* registered ids are exactly the clients whose last connect was not followed
\* by a disconnect of that client or by a failed send to it, and the number of
\* entries is the number of those clients.
C13_RegistryConsistent ==
    /\ Ids(active_connections) = {c \in Clients : net[c]}
    /\ Cardinality(active_connections) = Cardinality({c \in Clients : net[c]})

\* two clients have connected, a send to one of them has failed: that one is
\* gone from the registry and the other is still there
C13_Witness ==
    \E g, h \in Handles :
        /\ client_id[g] # "none" /\ client_id[h] # "none" /\ client_id[g] # client_id[h]
        /\ chan[g] = "closed" /\ chan[h] = "open"
        /\ psend.pc = "idle" /\ bcast.pc = "idle"
        /\ active_connections = {<<client_id[h], h>>}

\* C14: a broadcast suspended in a send while another task connects or
\* disconnects a client is not aborted by that change of the registry.
C14_BroadcastNotAborted ==
    bcast.outcome # "raised"

\* a step of the reminder sweep that hands appointments to the registry
SweepStep == sweep.pc \in {"idle", "send"} /\ sweep'.pc \in {"send", "done"} /\ sweep' # sweep

\* the appointments a sweep step has passed with no push
PassedOver == sweep'.dirty \ (sweep.dirty \cup {sweep.cur})

\* C15: one run of the reminder sweep, unless its query raises and it ends
\* rolled back with nothing taken, takes exactly the appointments that are
\* confirmed, not yet reminded and scheduled between now and now+24h; each of
\* them gets one push if its client has a mapping when its turn comes and none
\* if it has not, and has reminder-sent=true once the run has committed; the
\* other appointments get no push and keep their flag.
C15_ReminderSweep ==
    [][/\ (sweep.pc = "idle" /\ sweep'.pc # "idle" =>
              \/ sweep'.snapshot =
                    {i \in 1..Len(appointments) :
                        /\ appointments[i].status = "confirmed"
                        /\ ~appointments[i].reminder_sent
                        /\ appointments[i].scheduled_date >= Now
                        /\ appointments[i].scheduled_date <= Now + ReminderWindow}
              \/ sweep'.snapshot = {} /\ sweep'.outcome = "rolled_back")
       /\ (SweepStep =>
              /\ sweep'.snapshot = IF sweep.pc = "idle" THEN sweep'.snapshot ELSE sweep.snapshot
              /\ sweep'.attempted \subseteq sweep'.snapshot
              /\ \A a \in PassedOver :
                     /\ a \in sweep'.snapshot \ sweep'.attempted
                     /\ ~Mapped(active_connections', appointments[a].client_id)
              /\ sweep'.pc = "send" =>
                     /\ sweep'.cur \in sweep'.snapshot
                     /\ sweep'.cur \notin (IF sweep.pc = "idle" THEN {} ELSE sweep.attempted)
                     /\ <<appointments[sweep'.cur].client_id, sweep'.ws>> \in active_connections'
              /\ sweep'.attempted =
                     (IF sweep.pc = "idle" THEN {} ELSE sweep.attempted)
                         \cup (IF sweep'.pc = "send" THEN {sweep'.cur} ELSE {})
              /\ sweep'.outcome = "committed" =>
                     /\ sweep'.dirty = sweep'.snapshot
                     /\ \A i \in 1..Len(appointments) :
                            appointments'[i] =
                                IF i \in sweep'.snapshot
                                THEN [appointments[i] EXCEPT !.reminder_sent = TRUE]
                                ELSE appointments[i])]_vars

\* a run over two appointments has committed: one client was connected and got
\* its push, the other was not and got none, and both appointments are flagged
C15_Witness ==
    /\ sweep.pc = "done" /\ sweep.outcome = "committed"
    /\ Cardinality(sweep.snapshot) = 2
    /\ Cardinality(sweep.attempted) = 1
    /\ sweep.failed = {}
    /\ \A i \in sweep.snapshot : appointments[i].reminder_sent

\* C16: an appointment whose push to a connected client failed with a channel
\* error has reminder-sent=false when the sweep has committed.
C16_FlagOnlyOnDispatch ==
    sweep.pc = "done" /\ sweep.outcome = "committed" =>
        \A a \in sweep.failed : ~appointments[a].reminder_sent

\* C17: the flag of an appointment goes from false to true only in the commit
\* of a reminder sweep that has handed the appointment to the registry; a row
\* is created with the flag false.
C17_FlagOnlyBySweep ==
    [][\A i \in 1..Len(appointments') :
          /\ appointments'[i].reminder_sent
          /\ (i > Len(appointments) \/ ~appointments[i].reminder_sent)
          => /\ sweep.pc \in {"idle", "send"}
             /\ sweep'.pc = "done" /\ sweep'.outcome = "committed"
             /\ i \in sweep'.handed]_vars

\* a sweep is abandoned at shutdown after it has set the flag of an appointment
\* in its session: the table still has the flag false
C17_Witness ==
    /\ ~is_running
    /\ sweep.pc = "done" /\ sweep.outcome = "cancelled"
    /\ \E i \in sweep.dirty : ~appointments[i].reminder_sent

\* C18: a run of the daily reconciliation that commits sets status=completed
\* for exactly the confirmed appointments scheduled more than one hour in the
\* past, and leaves every other status, every date and every owner as it was;
\* a run that fails leaves the statuses as they were or as a full run does.
C18_DailyReconciliation ==
    [][ran = "none" /\ ran' # "none" =>
          LET expected(a) == IF a.status = "confirmed" /\ a.scheduled_date < Now - CleanupGrace
                             THEN "completed" ELSE a.status
          IN /\ Len(appointments') = Len(appointments)
             /\ \A i \in 1..Len(appointments) :
                   /\ appointments'[i].scheduled_date = appointments[i].scheduled_date
                   /\ appointments'[i].client_id = appointments[i].client_id
             /\ \/ \A i \in 1..Len(appointments) :
                      appointments'[i].status = expected(appointments[i])
                \/ /\ ran' = "failed"
                   /\ \A i \in 1..Len(appointments) :
                         appointments'[i].status = appointments[i].status]_vars

\* a reconciliation has just committed: the appointment two hours back is
\* completed, the confirmed one exactly one hour back is still confirmed
C18_Witness ==
    /\ ran = "ok"
    /\ \E i, j \in 1..Len(appointments) :
          /\ appointments[i].status = "completed"
          /\ appointments[i].scheduled_date = Now - CleanupGrace - 1
          /\ appointments[j].status = "confirmed"
          /\ appointments[j].scheduled_date = Now - CleanupGrace

\* C19: an appointment that is cancelled or completed keeps that status in
\* every later step.
C19_TerminalStatus ==
    [][\A i \in 1..Len(appointments) :
          appointments[i].status \in {"cancelled", "completed"} =>
              appointments'[i].status = appointments[i].status]_vars

\* C20: a step that changes the scheduled date of an appointment leaves it
\* with reminder-sent=false; and for every appointment of the table, an update
\* with a date gives reminder-sent=false whatever the flag was, an update with
\* a status alone gives the same flag and the same date.
C20_RescheduleResetsFlag ==
    /\ [][\A i \in 1..Len(appointments) :
             appointments'[i].scheduled_date # appointments[i].scheduled_date =>
                 ~appointments'[i].reminder_sent]_vars
    /\ [](\A i \in 1..Len(appointments), st \in Statuses \cup {"None"} :
             LET a == appointments[i] IN
             /\ \A d \in Dates :
                   /\ update_appointment(a, st, {d}).reminder_sent = FALSE
                   /\ update_appointment(a, st, {d}).scheduled_date = d
             /\ update_appointment(a, st, {}).reminder_sent = a.reminder_sent
             /\ update_appointment(a, st, {}).scheduled_date = a.scheduled_date)

\* a reminded appointment has been moved out of the reminder window: its flag
\* is false again while the other reminded appointment keeps its flag
C20_Witness ==
    \E i, j \in 1..Len(appointments) :
        /\ appointments[i].status = "confirmed"
        /\ appointments[i].scheduled_date = Now + ReminderWindow + 1
        /\ ~appointments[i].reminder_sent
        /\ appointments[j].reminder_sent
        /\ sweep.pc = "idle" /\ ran = "none"

\* the program points of the receive loop (main.py 90-173)
LoopPCs ==
    {"receive", "find_conv", "save_user", "respond", "save_ai",
     "send_response", "dispatch", "send_slots"}

\* the steps of the pipeline that write to the store (main.py 96-119, 150-158)
StorePCs == {"find_conv", "save_user", "save_ai"}

\* C21: a store step of the pipeline, on a message that carries a content,
\* leaves its handler inside the receive loop with its client registered:
\* when the step fails the loop goes on to the next receive.
C21_StoreFailureKeepsLoop ==
    [][\A h \in Handles :
          (pc[h] \in StorePCs /\ data[h].has_content /\ pc'[h] # pc[h]) =>
              /\ pc'[h] \in LoopPCs
              /\ Mapped(active_connections, client_id[h]) =>
                     Mapped(active_connections', client_id[h])]_vars

\* the step is part of a channel failure on socket h: the failed operation
\* itself, or the branch of its handler that deals with it
ChannelFailureStep(h) ==
    \/ chan[h] = "open" /\ chan'[h] = "closed"
    \/ pc[h] \in {"except_disconnect", "except_error"} /\ pc'[h] = "done"

\* C22: a channel failure on a connection of client c, and the handling of it
\* (the end of the handler, the clean-up of send_personal_message), changes
\* nothing of another client: the registry keeps every mapping of every other
\* client id and gains none, the handlers of the other clients stay where they
\* are with their channel, their conversation and what was sent to them, the
\* conversation rows of the other clients are the same, and the scheduler and
\* its jobs are as they were.
C22_FailureIsLocal ==
    [][\A h \in Handles :
          ChannelFailureStep(h) =>
              /\ active_connections' \subseteq active_connections
              /\ \A p \in active_connections :
                    p[1] # client_id[h] => p \in active_connections'
              /\ \A g \in Handles :
                    client_id[g] # client_id[h] =>
                        /\ pc'[g] = pc[g]
                        /\ chan'[g] = chan[g]
                        /\ conversation'[g] = conversation[g]
                        /\ outbox'[g] = outbox[g]
              /\ \A i \in 1..Len(conversations) :
                    conversations[i].client_id # client_id[h] =>
                        conversations'[i] = conversations[i]
              /\ jobVars' = jobVars]_vars

\* the connection of one client has failed and its handler has returned,
\* while another client is registered, inside its loop, on an active
\* conversation
C22_Witness ==
    \E h, g \in Handles :
        /\ client_id[g] \notin {"none", client_id[h]}
        /\ chan[h] = "closed" /\ pc[h] = "done"
        /\ ~Mapped(active_connections, client_id[h])
        /\ <<client_id[g], g>> \in active_connections
        /\ pc[g] = "receive" /\ chan[g] = "open"
        /\ conversation[g] # Unbound
        /\ conversations[conversation[g]].status = "active"

ActionDatas == {EmptyDict, [suggested_times |-> "slots"], [suggested_times |-> "other"]}

\* handler h takes a step of the action loop
DispatchStep(h) ==
    /\ pc[h] \in {"dispatch", "send_slots"}
    /\ pc'[h] # pc[h] \/ pending'[h] # pending[h]

\* C23: for every action the dispatcher can be handed, it sends one payload of
\* type available_slots with the suggested times of the action's data when the
\* type is show_availability and nothing for confirm_appointment,
\* modify_appointment or an unknown type; and every step of the action loop
\* stays in the pipeline (nothing is raised), writes nothing to the store or
\* the registry, sends nothing to another connection, and puts on the
\* originating connection exactly the payload of a show_availability action
\* whose send succeeds and nothing otherwise.
C23_ActionDispatcher ==
    /\ [](\A t \in ActionTypes, d \in ActionDatas, k \in 0..MaxMsgs :
             LET sent == process_action(Action(t, d), k) IN
             IF t = "show_availability"
             THEN /\ Len(sent) = 1
                  /\ sent[1].type = "available_slots"
                  /\ sent[1].k = k
                  /\ sent[1].content =
                        IF d = EmptyDict THEN "[]" ELSE d.suggested_times
             ELSE sent = <<>>)
    /\ [][\A h \in Handles :
             DispatchStep(h) =>
                 /\ pc'[h] \in {"dispatch", "send_slots", "receive"}
                 /\ storeVars' = storeVars
                 /\ active_connections' = active_connections
                 /\ \A g \in Handles \ {h} : outbox'[g] = outbox[g]
                 /\ IF pc[h] = "send_slots" /\ chan'[h] = "open"
                    THEN /\ Head(pending[h]).type = "show_availability"
                         /\ outbox'[h] =
                               Append(outbox[h],
                                      Payload("available_slots",
                                              Head(pending[h]).data.suggested_times,
                                              nrecv[h]))
                         /\ pending'[h] = Tail(pending[h])
                    ELSE outbox'[h] = outbox[h]
                 /\ (pending[h] # <<>> /\ Head(pending[h]).type # "show_availability") =>
                        pc[h] = "dispatch" /\ outbox' = outbox]_vars

\* one connection has been sent the slots of its first message, exactly once,
\* and the confirm or modify action of its second message has been dispatched
\* with nothing sent
C23_Witness ==
    \E h \in Handles :
        /\ pc[h] = "receive" /\ nrecv[h] = 2 /\ chan[h] = "open"
        /\ Cardinality({n \in 1..Len(outbox[h]) : outbox[h][n].type = "available_slots"}) = 1
        /\ Sent(h, "available_slots", 1)
        /\ \E i \in 1..Len(messages) :
              /\ messages[i].ws = h /\ messages[i].k = 2
              /\ messages[i].sender_type = "client"
              /\ _extract_actions(_analyze_intent(messages[i].content)) # <<>>
        /\ \E i \in 1..Len(messages) :
              /\ messages[i].ws = h /\ messages[i].k = 2
              /\ messages[i].content = "completion text"

\* C24: the batch of a message becomes pending in the step that sends the
\* response payload, and only there; the action loop takes the pending actions
\* one by one from the head, in the order returned; a send of the slots that
\* fails takes its action off like one that succeeds and leaves the handler in
\* the action loop with the later actions still to dispatch; the handler
\* leaves the action loop only with the batch empty, and then for the next
\* receive; and inside the action loop the response payload of the message
\* has been sent.
C24_BatchInOrder ==
    /\ [][\A h \in Handles :
             /\ pending'[h] # pending[h] =>
                   \/ /\ pc[h] = "send_response" /\ pc'[h] = "dispatch"
                      /\ pending'[h] = ai_response[h].actions
                      /\ outbox'[h] = Append(outbox[h],
                                             Payload("message", ai_response[h].response, nrecv[h]))
                   \/ /\ pc[h] \in {"dispatch", "send_slots"} /\ pc'[h] = "dispatch"
                      /\ pending[h] # <<>>
                      /\ pending'[h] = Tail(pending[h])
             /\ (pc[h] = "send_slots" /\ pc'[h] # pc[h]) =>
                   /\ pc'[h] = "dispatch"
                   /\ pending'[h] = Tail(pending[h])
             /\ (pc[h] = "dispatch" /\ pc'[h] # pc[h]) =>
                   \/ pc'[h] = "receive" /\ pending[h] = <<>>
                   \/ /\ pc'[h] = "send_slots" /\ pending'[h] = pending[h]
                      /\ Head(pending[h]).type = "show_availability"]_vars
    /\ [](\A h \in Handles :
             /\ pc[h] \in {"dispatch", "send_slots"} => Sent(h, "message", nrecv[h])
             /\ pc[h] \notin {"dispatch", "send_slots"} => pending[h] = <<>>)

\* the response has been sent, the send of the slots of one action has failed,
\* and the handler is in the action loop at the send of a later action
C24_Witness ==
    \E h \in Handles :
        /\ Sent(h, "message", nrecv[h])
        /\ chan[h] = "closed"
        /\ pc[h] = "send_slots"
        /\ Len(pending[h]) = 1

\* the confirmed appointments scheduled between now and now + 30 minutes
Imminent ==
    {i \in AppointmentIds :
        /\ appointments[i].status = "confirmed"
        /\ appointments[i].scheduled_date >= Now
        /\ appointments[i].scheduled_date <= Now + 30 * Minute}

\* C25: a run of the imminent-appointment sweep takes the confirmed
\* appointments scheduled between now and now + 30 minutes, whatever the run
\* before has pushed; when it ends it has pushed exactly one notice for each
\* of them, with the urgent 'starts in' text when the whole minutes that
\* remain are at most 15 and the reminder text otherwise; and no step of a run
\* changes a row of the appointments table or of the store.
C25_ImminentSweep ==
    /\ [][(upcoming.pc = "idle" /\ upcoming'.pc # "idle") =>
             upcoming'.selected = Imminent]_vars
    /\ [][upcoming' # upcoming =>
             appointments' = appointments /\ storeVars' = storeVars]_vars
    /\ [](upcoming.pc = "done" =>
             /\ {n.id : n \in upcoming.handed} = upcoming.selected
             /\ Cardinality(upcoming.handed) = Cardinality(upcoming.selected)
             /\ \A n \in upcoming.handed :
                   /\ n.minutes * 60 <= n.scheduled_date - Now
                   /\ n.scheduled_date - Now < (n.minutes + 1) * 60
                   /\ n.text = IF n.minutes <= 15 THEN "starts in" ELSE "Reminder")

\* a run has ended with an urgent notice and a reminder notice pushed, one of
\* them for an appointment that the run before had pushed a notice for
C25_Witness ==
    /\ upcoming.pc = "done"
    /\ \E n1, n2 \in upcoming.handed :
          /\ n1.text = "starts in" /\ n2.text = "Reminder"
          /\ n1.id \in upcoming.prev
          /\ appointments[n1.id].reminder_sent = FALSE

\* the suggestion the claim gives for a last appointment date (a set, empty
\* when none is recorded), the limits taken in elapsed time: more than 90
\* whole days are at least 91 days
Suggested(last) ==
    IF last = {} THEN "Would you like to schedule your first appointment with us?"
    ELSE LET elapsed == Now - (CHOOSE d \in last : TRUE)
         IN IF elapsed >= 91 * Day THEN "It's been a while since your last visit!"
            ELSE IF elapsed >= 31 * Day THEN "Time for your regular check-in?"
            ELSE "None"

\* C26: for every client of the store the suggestion is the first-time message
\* when no last appointment is recorded, the reconnect message when more than
\* 90 whole days have passed since it, the check-in message when more than 30
\* and at most 90, and none otherwise (a date in the future included); and an
\* outreach request acts on exactly that suggestion: with none it ends with
\* 'no outreach' and the store as it was, with a message that message is the
\* one stored.
C26_FollowUpByDays ==
    /\ [](\A r \in clients :
             suggest_follow_up(r.last_appointment_date,
                               IF r.last_appointment_date = {} THEN 0
                               ELSE days_since(CHOOSE d \in r.last_appointment_date : TRUE))
                 = Suggested(r.last_appointment_date))
    /\ [][nrest' = nrest + 1 =>
             \E c \in Clients :
                 IF ~HasClient(c) THEN rest'.outcome = "not_found"
                 ELSE LET s == Suggested((CHOOSE r \in clients : r.id = c).last_appointment_date)
                      IN IF s = "None"
                         THEN rest'.outcome = "no_outreach" /\ storeVars' = storeVars
                         ELSE /\ rest'.outcome = "sent"
                              /\ Len(messages') = Len(messages) + 1
                              /\ messages'[Len(messages')].content = s]_vars

\* the check-in message has been stored for a client whose last appointment
\* was one second less than 91 days ago, and nothing for nobody else
C26_Witness ==
    /\ rest.outcome = "sent"
    /\ \E i \in 1..Len(messages) : messages[i].content = "Time for your regular check-in?"
    /\ \E r \in clients : r.last_appointment_date = {Now - 91 * Day + 1}
    /\ \A r \in clients : r.last_appointment_date \in {{Now - 91 * Day + 1}, {Now + 1}}

\* C27: an outreach request that ends with a message sent has added to the
\* store exactly one conversation, of status outreach, initiated by the
\* system and owned by the client, and exactly one message, of the assistant,
\* with the text produced and with that new conversation as its parent; a
\* request that ends otherwise leaves the store as it was and the peers
\* without a payload.
C27_OutreachPair ==
    [][(rest' # rest /\ rest'.pc = "idle") =>
          IF rest'.outcome = "sent"
          THEN /\ Len(conversations') = Len(conversations) + 1
               /\ conversations'[Len(conversations')].status = "outreach"
               /\ conversations'[Len(conversations')].initiated_by = "system"
               /\ conversations'[Len(conversations')].client_id \in Clients
               /\ \A i \in 1..Len(conversations) : conversations'[i] = conversations[i]
               /\ Len(messages') = Len(messages) + 1
               /\ messages'[Len(messages')].sender_type = "assistant"
               /\ messages'[Len(messages')].conversation_id = Len(conversations')
               /\ \A i \in 1..Len(messages) : messages'[i] = messages[i]
          ELSE storeVars' = storeVars /\ outbox' = outbox]_vars

\* C28: a request that ends with not-found changes nothing else: the store,
\* the appointments, the registry, the channels and what the peers have
\* received are as before, nothing is left in flight, and no request that
\* ends without a write and without a push answers anything but not-found or
\* no-outreach; and not-found is answered only when an appointment id or a
\* client id has no row.
C28_NotFound ==
    /\ [][(rest' # rest /\ rest'.outcome = "not_found") =>
             /\ rest'.pc = "idle"
             /\ \/ \E id \in 1..MaxAppts : id \notin AppointmentIds
                \/ \E c \in Clients : ~HasClient(c)
             /\ UNCHANGED <<active_connections, chan, outbox, wsVars, storeVars,
                            mgrVars, jobVars>>]_vars
    /\ [][(rest' # rest /\ rest.pc = "idle" /\ rest'.pc = "idle"
              /\ storeVars' = storeVars) =>
             rest'.outcome \in {"not_found", "no_outreach"}]_vars
    /\ [](rest.outcome = "not_found" => rest.pc = "idle" /\ notify.pc \in {"idle", "send"})

\* a request has been answered not-found, and since then requests have
\* created the rows that were missing: both clients and every appointment id
\* have a row, and a client is connected
C28_Witness ==
    /\ rest.outcome = "not_found"
    /\ \A c \in Clients : HasClient(c)
    /\ Len(appointments) = MaxAppts
    /\ appointments[MaxAppts].status = "cancelled"
    /\ active_connections # {}

\* C29: a reminder sweep whose commit raises ends rolled back with the table as
\* it was before the run, and a reconciliation that fails ends with the table
\* as it was or with only the completions of its first commit; the failing
\* step leaves the scheduler running with its jobs; the return of a job, failed
\* or not, leaves no trace of the run; and whenever the scheduler runs and no
\* job is in flight, a run of the reminder sweep and a run of the
\* reconciliation can start.
C29_JobFailureContained ==
    /\ [][/\ (sweep' # sweep /\ sweep'.outcome = "rolled_back") =>
                /\ appointments' = appointments
                /\ sweep'.pc = "done"
                /\ is_running' = is_running /\ jobs' = jobs
          /\ (sweep.pc = "send" /\ sweep' # sweep /\ sweep'.outcome # "committed") =>
                appointments' = appointments
          /\ (ran' # ran /\ ran' = "failed") =>
                /\ \/ appointments' = appointments
                   \/ appointments' =
                         [i \in 1..Len(appointments) |->
                             IF appointments[i].status = "confirmed"
                                /\ appointments[i].scheduled_date < Now - 1 * Hour
                             THEN [appointments[i] EXCEPT !.status = "completed"]
                             ELSE appointments[i]]
                /\ is_running' = is_running /\ jobs' = jobs
          /\ (sweep.pc = "done" /\ sweep' # sweep) => sweep' = SweepIdle
          /\ (ran # "none" /\ ran' # ran) => ran' = "none"]_vars
    /\ []((is_running /\ sweep.pc = "idle" /\ ran = "none" /\ upcoming.pc = "idle") =>
             (ENABLED SweepStart) /\ (ENABLED DailyCleanup))

\* a sweep has pushed a reminder, set the flag on the loaded row and failed in
\* its commit: the run is rolled back, the appointment is unflagged in the
\* table and the scheduler runs
C29_Witness ==
    /\ sweep.pc = "done" /\ sweep.outcome = "rolled_back"
    /\ sweep.attempted # {}
    /\ \E a \in sweep.dirty : ~appointments[a].reminder_sent
    /\ is_running

\* C30: a call of start() on a running scheduler and a call of shutdown() on a
\* stopped one change nothing; while the scheduler runs, and after any call of
\* start(), the job store holds exactly the four jobs send_reminders,
\* check_upcoming, daily_cleanup and weekly_report, each once, and no
\* proactive outreach; while the scheduler is stopped no run of a job starts;
\* and the reported status is 'running' exactly when a start() has been
\* called with no shutdown() after it.
C30_Lifecycle ==
    /\ [][calls' # calls =>
             LET call == calls'[Len(calls')]
             IN (call = "start" /\ is_running) \/ (call = "shutdown" /\ ~is_running) =>
                    UNCHANGED <<active_connections, chan, outbox, wsVars, storeVars,
                                restVars, mgrVars, appointments, sweep, notify, ran,
                                is_running, upcoming, jobs>>]_vars
    /\ [][~is_running =>
             /\ ~(sweep.pc = "idle" /\ sweep'.pc # "idle")
             /\ ~(upcoming.pc = "idle" /\ upcoming'.pc # "idle")
             /\ ~(ran = "none" /\ ran' # "none")]_vars
    /\ [](LET FourJobs(store) ==
                  /\ Len(store) = 4
                  /\ {store[i] : i \in 1..Len(store)} =
                         {"send_reminders", "check_upcoming", "daily_cleanup", "weekly_report"}
                  /\ \A i \in 1..Len(store) : store[i] # "proactive_outreach"
          IN /\ is_running => FourJobs(get_scheduler_jobs.jobs)
             /\ start(SchedulerState).is_running
             /\ FourJobs(start(SchedulerState).jobs))
    /\ [](get_scheduler_jobs.status = "running" <=>
             \E i \in 1..Len(calls) :
                 /\ calls[i] = "start"
                 /\ \A j \in (i + 1)..Len(calls) : calls[j] # "shutdown")

\* start() was called twice and then shutdown() twice, with an appointment in
\* the table: the second start() met a running scheduler and the second
\* shutdown() a stopped one
C30_Witness ==
    /\ calls = <<"start", "start", "shutdown", "shutdown">>
    /\ ~is_running
    /\ appointments # <<>>

\* the reminder sweep as it would run from the current state to its first
\* suspension or its commit, and the tables the reconciliation would leave
NextSweep ==
    LET ids == {i \in AppointmentIds : NeedsReminder(appointments[i])}
    IN RunSweep([SweepIdle EXCEPT !.todo = Rows(ids, 1), !.snapshot = ids],
                active_connections)

\* a run of the reminder sweep from the current state pushes nothing and
\* changes no appointment, whether its commit succeeds or not
SweepIsIdle ==
    /\ NextSweep.pc = "commit"
    /\ NextSweep.attempted = {}
    /\ FlagOnCommit(NextSweep) = appointments
    /\ RolledBack(NextSweep) = appointments

\* a run of the reconciliation from the current state changes no appointment,
\* whether its commits succeed or not
CleanupIsIdle ==
    /\ ResetRescheduled(Completed(appointments)) = appointments
    /\ Completed(appointments) = appointments

C32_ResetIsDead ==
    [][ran = "none" /\ ran' # "none" =>
          \A i \in 1..Len(appointments) :
              appointments'[i].scheduled_date = appointments[i].scheduled_date
              /\ appointments[i].reminder_sent => appointments'[i].reminder_sent]_vars

\* the reminder pushes received for appointment i, among those kept
RemindersOf(i) == {k \in 1..Len(reminders.log) : reminders.log[k] = i}

\* C33: a confirmed appointment whose date never changes and whose client
\* stays connected (no channel has failed and no client has left) gets the
\* reminder push of the reminder sweep at most once, whatever reminder
\* sweeps, imminent sweeps and daily reconciliations run.
C33_ReminderAtMostOnce ==
    (\A ws \in Handles : chan[ws] = "open") =>
        \A i \in 1..Len(appointments) : Cardinality(RemindersOf(i)) <= 1


\* C34: a reschedule that commits while the reminder sweep is suspended in
\* the push for the same appointment is not lost: once the sweep has finished
\* (the update finished in its own step), the appointment has the new date
\* and reminder_sent = FALSE.  Every row that carries RescheduledDate got it
\* from such a reschedule, and no sweep selects a row with that date.
C34_RescheduleNotLost ==
    sweep.pc \in {"done", "idle"} =>
        \A i \in 1..Len(appointments) :
            appointments[i].scheduled_date = RescheduledDate =>
                appointments[i].reminder_sent = FALSE


\* messages of a conversation in a table of messages, by position
StoredIn(table, id) == {i \in 1..Len(table) : table[i].conversation_id = id}

\* C35: no message is appended to a conversation after it has been marked
\* ended, whatever the connections of its client do: in every step a
\* conversation that is ended stays ended and keeps exactly the messages it
\* had, so every message of an ended conversation was persisted before the
\* end (and was in the table the finalization read for the summary).
C35_NoAppendAfterEnd ==
    [][\A id \in 1..Len(conversations) :
          conversations[id].status = "ended" =>
              /\ conversations'[id].status = "ended"
              /\ StoredIn(messages', id) = StoredIn(messages, id)]_vars

\* two connections of one client: the conversation the first one wrote to
\* has been ended, and the other connection has persisted a message since,
\* in a later conversation of the same client
C35_Witness ==
    \E a \in 1..Len(conversations), b \in 1..Len(conversations) :
        /\ a < b
        /\ conversations[a].client_id = conversations[b].client_id
        /\ conversations[a].status = "ended"
        /\ StoredIn(messages, a) # {}
        /\ \E i \in StoredIn(messages, a), j \in StoredIn(messages, b) :
              /\ i < j
              /\ messages[i].ws # messages[j].ws


\* C36: the confirmation of create_appointment promises a reminder 24 hours
\* before the appointment: with the sweep running at every hour, an
\* appointment created more than 24 hours ahead and not updated afterwards
\* has been picked up by a sweep (reminder_sent is TRUE) by the time its
\* scheduled date is reached.  The first appointment of SpecPromise is never
\* updated.
C36_ReminderPromised ==
    (Len(appointments) >= 1 /\ appointments[1].scheduled_date <= Now) =>
        appointments[1].reminder_sent = TRUE

====
